---- MODULE Spec2Model ----
(***************************************************************************)
(* A model of the analytical core of jira-tools:                           *)
(*   - FeatureQualityAnalyzer (src/jirabug/analysis/feature_analyzer.py)   *)
(*   - FeedbackManager        (src/jirabug/analysis/feedback.py)           *)
(*                                                                         *)
(* Python numbers are modelled by exact rationals <<n, d>> (d > 0, lowest  *)
(* terms).  Python strings that the code only looks up or compares for     *)
(* equality are TLA+ strings; strings the code takes apart (bug titles,    *)
(* which are lower-cased and split) are sequences of one-character         *)
(* strings.  A Python dict is a function; a key the dict does not hold is  *)
(* a key outside its DOMAIN.  Python's None is the value NoneVal.          *)
(***************************************************************************)
EXTENDS Integers, Sequences, FiniteSets, TLC

VARIABLES
    call,                    \* the last call made: [op |-> ..., <arguments>]
    ret,                     \* what that call returned
    feedback_data,           \* FeedbackManager.feedback_data
    feedback_file,           \* the CSV file at FeedbackManager.feedback_file
    similarity_threshold,    \* FeedbackManager.similarity_threshold
    max_feedback_examples,   \* FeedbackManager.max_feedback_examples
    client,                  \* the FastGPTClient: [feedback_manager |-> ...]
    bugs_left,               \* analyze_bugs: the bugs its loop has yet to take
    results,                 \* analyze_bugs: its list results
    trace,                   \* what each analyze_bug call so far exchanged
                             \* with the oracle and the feedback manager
    cache,                   \* JiraClient: cache_key -> the list pickled in
                             \* cache_dir under that key
    bug_results              \* interactive_feedback_mode: its list bug_results

vars == <<call, ret, feedback_data, feedback_file,
          similarity_threshold, max_feedback_examples,
          client, bugs_left, results, trace, cache, bug_results>>

managerVars == <<feedback_data, feedback_file,
                 similarity_threshold, max_feedback_examples>>

advisorVars == <<client, bugs_left, results, trace>>

otherVars == <<cache, bug_results>>

NoneVal == "<None>"

(***************************************************************************)
(* Bounds of the model.                                                    *)
(***************************************************************************)
MaxBlockers == 11     \* Open/Blocker bugs at the head of a linked-bug list
MaxResolved == 4      \* Resolved bugs that follow them
MaxMixed    == 1      \* arbitrary bugs at the tail of the list
ScoreSteps  == 4      \* scores handed to the grade function: k / ScoreSteps
MaxTextLen  == 3      \* characters of a text handed to _calculate_similarity
MaxEntries  == 3      \* entries saved to the feedback store in one run
MaxLimit    == 2      \* the largest max_feedback_examples set by a caller
MaxSaves    == 2      \* entries one manager saves over the life of the store
MaxValuePieces == 2   \* pieces a field value of a three-line response is made of
MaxPieces   == 4      \* pieces any other response is made of
MaxBugs     == 2      \* the longest batch of bugs given to analyze_bugs
MaxDated    == 2      \* the longest list of bugs with timestamps
MaxFullPages == 2     \* full pages of issues that match a query
MaxCalls    == 3      \* calls made on one JiraClient
MaxTurns    == 2      \* turns of the loop of interactive_feedback_mode

(***************************************************************************)
(* Exact rational arithmetic.                                              *)
(***************************************************************************)
RECURSIVE GCD(_, _)
GCD(a, b) == IF b = 0 THEN a ELSE GCD(b, a % b)

Rat(n, d) ==
    LET g == GCD(IF n < 0 THEN -n ELSE n, d)
    IN  <<n \div g, d \div g>>

Int2Rat(n)   == <<n, 1>>
RatAdd(a, b) == Rat(a[1] * b[2] + b[1] * a[2], a[2] * b[2])
RatSub(a, b) == Rat(a[1] * b[2] - b[1] * a[2], a[2] * b[2])
RatMul(a, b) == Rat(a[1] * b[1], a[2] * b[2])
RatLt(a, b)  == a[1] * b[2] < b[1] * a[2]
RatLe(a, b)  == a[1] * b[2] <= b[1] * a[2]
RatGe(a, b)  == RatLe(b, a)
RatMin(a, b) == IF RatLt(b, a) THEN b ELSE a      \* Python min(a, b)
RatMax(a, b) == IF RatLt(a, b) THEN b ELSE a      \* Python max(a, b)

(***************************************************************************)
(* dict.get(key, default)                                                  *)
(***************************************************************************)
Get(d, key, default) == IF key \in DOMAIN d THEN d[key] ELSE default

(***************************************************************************)
(* FeatureQualityAnalyzer.__init__                                         *)
(***************************************************************************)
severity_weights ==
    ("Blocker"  :> Int2Rat(5)) @@
    ("Critical" :> Int2Rat(4)) @@
    ("Major"    :> Int2Rat(3)) @@
    ("Normal"   :> Int2Rat(2)) @@
    ("Minor"    :> Int2Rat(1)) @@
    ("Trivial"  :> Rat(1, 2))

priority_weights ==
    ("Highest" :> 5) @@ ("High" :> 4) @@ ("Medium" :> 3) @@
    ("Low" :> 2) @@ ("Lowest" :> 1)

status_categories ==
    ("Open"        :> "Open") @@
    ("In Progress" :> "Open") @@
    ("Reopened"    :> "Open") @@
    ("To Do"       :> "Open") @@
    ("Resolved"    :> "Resolved") @@
    ("Closed"      :> "Resolved") @@
    ("Done"        :> "Resolved") @@
    ("Backlog"     :> "Other")

(***************************************************************************)
(* FeatureQualityAnalyzer._calculate_quality_score                         *)
(***************************************************************************)
\* (faulty variant) the deduction is added to the score instead of subtracted
Deduction_SignSlip(bug) ==
    LET status   == Get(bug, "status", "")
        category == Get(status_categories, status, "Other")
    IN  IF category = "Open"
        THEN LET severity == Get(bug, "severity", "Normal")
             IN  RatMul(Get(severity_weights, severity, Int2Rat(1)), Int2Rat(-2))
        ELSE Int2Rat(0)

\* the deduction one bug makes in the loop of lines 202-211
Deduction(bug) ==
    LET status   == Get(bug, "status", "")
        category == Get(status_categories, status, "Other")
    IN  IF category = "Open"
        THEN LET severity == Get(bug, "severity", "Normal")
             IN  RatMul(Get(severity_weights, severity, Int2Rat(1)), Int2Rat(2))
        ELSE Int2Rat(0)

\* lines 202-211: the loop over the bugs, from the running quality_score.
\* (The bound variable holds the running score as a value, so that it is
\* computed once per iteration.)
RECURSIVE DeductOpenBugs(_, _)
DeductOpenBugs(bugs, quality_score) ==
    IF bugs = <<>> THEN quality_score
    ELSE CHOOSE result \in
             {DeductOpenBugs(Tail(bugs), next) :
                 next \in {RatSub(quality_score, Deduction(Head(bugs)))}} : TRUE

\* lines 214-215: the factor the score is multiplied by
DampingFactor(resolution_rate) ==
    IF RatLt(resolution_rate, Int2Rat(80))
    THEN RatAdd(Rat(1, 2), RatMul(resolution_rate, Rat(1, 160)))
    ELSE Int2Rat(1)

\* (faulty variant) the score is capped at 100 but not floored at 0
Clamp_NoFloor(quality_score) == RatMin(Int2Rat(100), quality_score)

\* line 218
Clamp(quality_score) == RatMax(Int2Rat(0), RatMin(Int2Rat(100), quality_score))

\* (faulty variant) the damping is applied to the raw 100, the deductions after
CalculateQualityScore_DampFirst(bugs, resolution_rate) ==
    LET damped   == RatMul(Int2Rat(100), DampingFactor(resolution_rate))
        deducted == DeductOpenBugs(bugs, damped)
    IN  Clamp(deducted)

\* lines 188-220
CalculateQualityScore(bugs, resolution_rate) ==
    LET deducted == DeductOpenBugs(bugs, Int2Rat(100))
        damped   == RatMul(deducted, DampingFactor(resolution_rate))
    IN  Clamp(damped)

(***************************************************************************)
(* FeatureQualityAnalyzer._determine_quality_grade                         *)
(***************************************************************************)
\* (faulty variant) the bands exclude their lower bound: > where the code has >=
DetermineQualityGrade_Exclusive(quality_score) ==
    IF      RatLt(Int2Rat(95), quality_score) THEN "A+"
    ELSE IF RatLt(Int2Rat(90), quality_score) THEN "A"
    ELSE IF RatLt(Int2Rat(85), quality_score) THEN "A-"
    ELSE IF RatLt(Int2Rat(80), quality_score) THEN "B+"
    ELSE IF RatLt(Int2Rat(75), quality_score) THEN "B"
    ELSE IF RatLt(Int2Rat(70), quality_score) THEN "B-"
    ELSE IF RatLt(Int2Rat(65), quality_score) THEN "C+"
    ELSE IF RatLt(Int2Rat(60), quality_score) THEN "C"
    ELSE IF RatLt(Int2Rat(55), quality_score) THEN "C-"
    ELSE IF RatLt(Int2Rat(50), quality_score) THEN "D+"
    ELSE IF RatLt(Int2Rat(45), quality_score) THEN "D"
    ELSE "F"

DetermineQualityGrade(quality_score) ==
    IF      RatGe(quality_score, Int2Rat(95)) THEN "A+"
    ELSE IF RatGe(quality_score, Int2Rat(90)) THEN "A"
    ELSE IF RatGe(quality_score, Int2Rat(85)) THEN "A-"
    ELSE IF RatGe(quality_score, Int2Rat(80)) THEN "B+"
    ELSE IF RatGe(quality_score, Int2Rat(75)) THEN "B"
    ELSE IF RatGe(quality_score, Int2Rat(70)) THEN "B-"
    ELSE IF RatGe(quality_score, Int2Rat(65)) THEN "C+"
    ELSE IF RatGe(quality_score, Int2Rat(60)) THEN "C"
    ELSE IF RatGe(quality_score, Int2Rat(55)) THEN "C-"
    ELSE IF RatGe(quality_score, Int2Rat(50)) THEN "D+"
    ELSE IF RatGe(quality_score, Int2Rat(45)) THEN "D"
    ELSE "F"

(***************************************************************************)
(* Timestamps.  A timestamp text is modelled by what the code can tell of  *)
(* it: [fmt, t] with fmt the layout of the text and t the instant it       *)
(* names, in hours.  NoDate is None, EmptyDate is "".                      *)
(***************************************************************************)
NoDate    == [fmt |-> "None"]
EmptyDate == [fmt |-> "empty"]
NowHours  == 100 * 24             \* datetime.now(), in hours

AwareFormats == {"iso_z", "iso_offset"}             \* parse to an aware datetime
NaiveFormats == {"iso_naive", "ymd_hms", "slash_hms", "dmy_hms", "ymd"}
YearFirst    == {"iso_z", "iso_offset", "iso_naive", "ymd_hms", "ymd"}

\* FeatureQualityAnalyzer._parse_datetime: [ok, aware, t]; ok = FALSE is None
ParseDatetime(datetime_str) ==
    IF datetime_str.fmt \in AwareFormats
    THEN [ok |-> TRUE, aware |-> TRUE, t |-> datetime_str.t]
    ELSE IF datetime_str.fmt \in NaiveFormats
    THEN [ok |-> TRUE, aware |-> FALSE, t |-> datetime_str.t]
    ELSE [ok |-> FALSE]

\* bool(x) of a timestamp value
Truthy(d) == d.fmt \notin {"None", "empty"}

\* line 113: bug.get("created", "") > month_ago, a comparison of texts
CreatedAfter(created, month_ago) ==
    IF created.fmt \in YearFirst THEN created.t > month_ago
    ELSE Get(created, "lex_after", FALSE)

\* lines 117-126: the days one bug adds to resolution_times (a set of 0 or 1)
ResolutionDays(bug) ==
    IF ~Truthy(Get(bug, "resolutiondate", NoDate)) THEN {}
    ELSE IF "created" \notin DOMAIN bug THEN {}               \* KeyError, caught
    ELSE LET created  == ParseDatetime(bug["created"])
             resolved == ParseDatetime(bug["resolutiondate"])
         IN  IF ~(created.ok /\ resolved.ok) THEN {}
             ELSE IF created.aware # resolved.aware THEN {}   \* TypeError, caught
             ELSE {(resolved.t - created.t) \div 24}

RECURSIVE ResolutionTimes(_)
ResolutionTimes(bugs) ==
    IF bugs = <<>> THEN <<>>
    ELSE LET d == ResolutionDays(Head(bugs))
         IN  (IF d = {} THEN <<>> ELSE <<CHOOSE x \in d : TRUE>>)
                 \o ResolutionTimes(Tail(bugs))

RECURSIVE SumSeq(_)
SumSeq(s) == IF s = <<>> THEN 0 ELSE Head(s) + SumSeq(Tail(s))

(***************************************************************************)
(* FeatureQualityAnalyzer.analyze_feature_quality                          *)
(***************************************************************************)
\* a defaultdict(int) filled by one pass over the keys: key -> occurrences
CountOf(keys, v) == Cardinality({i \in DOMAIN keys : keys[i] = v})

Counts(keys) == [v \in {keys[i] : i \in DOMAIN keys} |-> CountOf(keys, v)]

\* (faulty variant) a status that is not in the table is filed under Open
StatusCategory_UnknownIsOpen(bug) ==
    Get(status_categories, Get(bug, "status", "Unknown"), "Open")

\* lines 78-79
StatusCategory(bug) ==
    Get(status_categories, Get(bug, "status", "Unknown"), "Other")

SeverityOf(bug) == Get(bug, "severity", "Unknown")
PriorityOf(bug) == Get(bug, "priority", "Unknown")

\* lines 99-104: the sum of weight * count over severity_counts
RECURSIVE SeverityScore(_, _, _)
SeverityScore(severity_counts, labels, severity_score) ==
    IF labels = {} THEN severity_score
    ELSE LET severity == CHOOSE l \in labels : TRUE
             weight   == Get(severity_weights, severity, Int2Rat(1))
         IN  CHOOSE result \in
                 {SeverityScore(severity_counts, labels \ {severity}, next) :
                     next \in {RatAdd(severity_score,
                                 RatMul(weight, Int2Rat(severity_counts[severity])))}}
                 : TRUE

\* (faulty variant) a feature without bugs gets rate 0 instead of 100
ResolutionRate_EmptyIsZero(resolved_bugs, total_bugs) ==
    IF total_bugs > 0 THEN Rat(resolved_bugs * 100, total_bugs) ELSE Int2Rat(0)

\* line 109
ResolutionRate(resolved_bugs, total_bugs) ==
    IF total_bugs > 0 THEN Rat(resolved_bugs * 100, total_bugs) ELSE Int2Rat(100)

AnalyzeFeatureQuality(feature, linked_bugs) ==
    LET total_bugs      == Len(linked_bugs)
        status_counts   == Counts([i \in DOMAIN linked_bugs |->
                                      StatusCategory(linked_bugs[i])])
        open_bugs       == Get(status_counts, "Open", 0)
        resolved_bugs   == Get(status_counts, "Resolved", 0)
        severity_counts == Counts([i \in DOMAIN linked_bugs |->
                                      SeverityOf(linked_bugs[i])])
        priority_counts == Counts([i \in DOMAIN linked_bugs |->
                                      PriorityOf(linked_bugs[i])])
        severity_score  == SeverityScore(severity_counts, DOMAIN severity_counts,
                                         Int2Rat(0))
        total_weight    == total_bugs
        avg_severity    == IF total_weight > 0
                           THEN RatMul(severity_score, Rat(1, total_weight))
                           ELSE Int2Rat(0)
        resolution_rate == ResolutionRate(resolved_bugs, total_bugs)
        month_ago       == NowHours - 30 * 24
        recent_bugs     == Cardinality({i \in DOMAIN linked_bugs :
                              CreatedAfter(Get(linked_bugs[i], "created", EmptyDate),
                                           month_ago)})
        resolution_times == ResolutionTimes(linked_bugs)
        avg_resolution_time ==
            IF resolution_times # <<>>
            THEN Rat(SumSeq(resolution_times), Len(resolution_times))
            ELSE Int2Rat(0)
        quality_score   == CalculateQualityScore(linked_bugs, resolution_rate)
        quality_grade   == DetermineQualityGrade(quality_score)
    IN  IF \E i \in DOMAIN linked_bugs :
               Get(linked_bugs[i], "created", EmptyDate) = NoDate
        THEN [raised |-> "TypeError"]           \* line 113: None > str
        ELSE [raised              |-> "",
              feature_key         |-> feature["key"],
              feature_summary     |-> feature["summary"],
              total_bugs          |-> total_bugs,
              open_bugs           |-> open_bugs,
              resolved_bugs       |-> resolved_bugs,
              resolution_rate     |-> resolution_rate,
              avg_resolution_time |-> avg_resolution_time,
              recent_bugs         |-> recent_bugs,
              severity_distribution |-> severity_counts,
              priority_distribution |-> priority_counts,
              avg_severity        |-> avg_severity,
              quality_score       |-> quality_score,
              quality_grade       |-> quality_grade]

(***************************************************************************)
(* Texts: a Python str the code takes apart is a sequence of characters.   *)
(***************************************************************************)
Whitespace == {" ", "\t", "\n", "\r"}                 \* the characters str.split() splits on

\* str.lower() of one character
LowerCase ==
    ("A" :> "a") @@ ("B" :> "b") @@ ("C" :> "c") @@ ("E" :> "e") @@
    ("I" :> "i") @@ ("Q" :> "q") @@ ("T" :> "t") @@ ("U" :> "u") @@
    ("X" :> "x")

LowerChar(c) == IF c \in DOMAIN LowerCase THEN LowerCase[c] ELSE c

\* str.lower()
Lower(text) == [i \in DOMAIN text |-> LowerChar(text[i])]

\* str.split(): the list of the maximal runs of non-whitespace characters.
\* word is the run being read, words the runs read so far.
RECURSIVE SplitFrom(_, _, _, _)
SplitFrom(text, i, word, words) ==
    LET closed == IF word = <<>> THEN words ELSE Append(words, word)
    IN  IF i > Len(text) THEN closed
        ELSE IF text[i] \in Whitespace
        THEN SplitFrom(text, i + 1, <<>>, closed)
        ELSE SplitFrom(text, i + 1, Append(word, text[i]), words)

Split(text) == SplitFrom(text, 1, <<>>, <<>>)

\* set(list)
ToSet(list) == {list[i] : i \in DOMAIN list}

(***************************************************************************)
(* FeedbackManager._calculate_similarity                                   *)
(***************************************************************************)
\* (faulty variant) the intersection is divided by the size of the first word set
CalculateSimilarity_Containment(text1, text2) ==
    LET words1 == ToSet(Split(Lower(text1)))
        words2 == ToSet(Split(Lower(text2)))
    IN  IF words1 = {} \/ words2 = {} THEN Int2Rat(0)
        ELSE Rat(Cardinality(words1 \cap words2), Cardinality(words1))

\* (faulty variant) the second text is not lower-cased
CalculateSimilarity_NoLower2(text1, text2) ==
    LET words1 == ToSet(Split(Lower(text1)))
        words2 == ToSet(Split(text2))
    IN  IF words1 = {} \/ words2 = {} THEN Int2Rat(0)
        ELSE Rat(Cardinality(words1 \cap words2), Cardinality(words1 \cup words2))

\* (faulty variant) the words are counted with their repetitions: lists, not sets
CalculateSimilarity_Multiset(text1, text2) ==
    LET list1  == Split(Lower(text1))
        list2  == Split(Lower(text2))
        common == Cardinality(ToSet(list1) \cap ToSet(list2))
    IN  IF list1 = <<>> \/ list2 = <<>> THEN Int2Rat(0)
        ELSE Rat(common, Len(list1) + Len(list2) - common)

CalculateSimilarity(text1, text2) ==
    LET words1 == ToSet(Split(Lower(text1)))
        words2 == ToSet(Split(Lower(text2)))
    IN  IF words1 = {} \/ words2 = {} THEN Int2Rat(0)
        ELSE LET intersection == Cardinality(words1 \cap words2)
                 union        == Cardinality(words1 \cup words2)
             IN  IF union > 0 THEN Rat(intersection, union) ELSE Int2Rat(0)

(***************************************************************************)
(* FeedbackManager.save_feedback                                           *)
(***************************************************************************)
fieldnames == <<"bug_id", "bug_title", "predicted_feature", "correct_feature",
                "reason", "timestamp">>

\* The feedback file is text in the csv module's default dialect.  The model
\* writes it as a sequence of tokens: a token is one character of a bug
\* title, or a whole string of the other fields (these hold none of the
\* characters the dialect treats specially), or the line terminator.
Delimiter      == ","
QuoteChar      == "\""
LineTerminator == "\r\n"
LineEnds       == {"\r", "\n", LineTerminator}

\* the text the writer gets for a value: str(value), and "" for None
FieldText(key, value) ==
    IF key = "bug_title" THEN value
    ELSE IF value \in {"", NoneVal} THEN <<>> ELSE <<value>>

\* the value a text read from the file is in the model: the inverse of the
\* representation chosen by FieldText
FieldValue(key, text) ==
    IF key = "bug_title" THEN text
    ELSE IF text = <<>> THEN ""
    ELSE IF Len(text) = 1 THEN text[1] ELSE ToString(text)

\* QUOTE_MINIMAL: a field is quoted when it holds the delimiter, the quote
\* character or a character of the line terminator
NeedsQuotes(text) ==
    \E i \in DOMAIN text : text[i] \in {Delimiter, QuoteChar} \cup LineEnds

\* doublequote: a quote character inside a quoted field is written twice
RECURSIVE DoubleQuotes(_)
DoubleQuotes(text) ==
    IF text = <<>> THEN <<>>
    ELSE (IF Head(text) = QuoteChar THEN <<QuoteChar, QuoteChar>>
          ELSE <<Head(text)>>) \o DoubleQuotes(Tail(text))

QuoteField(text) ==
    IF NeedsQuotes(text) THEN <<QuoteChar>> \o DoubleQuotes(text) \o <<QuoteChar>>
    ELSE text

RECURSIVE JoinFields(_)
JoinFields(fields) ==
    IF fields = <<>> THEN <<>>
    ELSE IF Len(fields) = 1 THEN QuoteField(fields[1])
    ELSE QuoteField(Head(fields)) \o <<Delimiter>> \o JoinFields(Tail(fields))

\* csv.writer.writerow: the line of a row of texts
WriteRow(fields) == JoinFields(fields) \o <<LineTerminator>>

\* DictWriter.writeheader: the row of the field names
HeaderRow == [i \in DOMAIN fieldnames |-> FieldText("", fieldnames[i])]

\* DictWriter.writerow: the texts of an entry in the order of fieldnames
RowOf(entry) ==
    [i \in DOMAIN fieldnames |-> FieldText(fieldnames[i], entry[fieldnames[i]])]

\* lines 54-61: the entry save_feedback builds
FeedbackEntry(bug_id, bug_title, predicted_feature, correct_feature, reason, timestamp) ==
    [bug_id            |-> bug_id,
     bug_title         |-> bug_title,
     predicted_feature |-> predicted_feature,
     correct_feature   |-> correct_feature,
     reason            |-> IF reason \in {NoneVal, ""} THEN "" ELSE reason,
     timestamp         |-> timestamp]

\* lines 65-81: the file after the write, by how the write goes:
\*   "ok"          the header (for a new file) and the row are written
\*   "open_fails"  open() raises: nothing is created or written
\*   "write_fails" writerow raises: the file was created by open(), and
\*                 the header written before it is flushed when the file closes
\*   "close_fails" the flush at the end of the with block raises (a full
\*                 disk): open() has created the file and nothing reaches it
FileAfterWrite(file, entry, outcome) ==
    LET file_exists == file.exists
        header      == IF file_exists THEN <<>> ELSE WriteRow(HeaderRow)
    IN  IF outcome = "ok"
        THEN [exists  |-> TRUE,
              content |-> file.content \o header \o WriteRow(RowOf(entry))]
        ELSE IF outcome = "write_fails"
        THEN [exists |-> TRUE, content |-> file.content \o header]
        ELSE IF outcome = "close_fails"
        THEN [exists |-> TRUE, content |-> file.content]
        ELSE file

\* (faulty variant) the new entry is put in front of the entries of the store
SaveFeedback_Prepend(bug_id, bug_title, predicted_feature, correct_feature, reason, timestamp, outcome) ==
    LET feedback_entry == FeedbackEntry(bug_id, bug_title, predicted_feature,
                                        correct_feature, reason, timestamp)
    IN  /\ feedback_data' = <<feedback_entry>> \o feedback_data
        /\ feedback_file' = FileAfterWrite(feedback_file, feedback_entry, outcome)
        /\ call' = [op |-> "save_feedback", entry |-> feedback_entry,
                    outcome |-> outcome]
        /\ ret' = (outcome = "ok")
        /\ UNCHANGED <<similarity_threshold, max_feedback_examples, advisorVars, otherVars>>

\* (faulty variant) an entry whose write failed is taken out of the store again
SaveFeedback_Rollback(bug_id, bug_title, predicted_feature, correct_feature, reason, timestamp, outcome) ==
    LET feedback_entry == FeedbackEntry(bug_id, bug_title, predicted_feature,
                                        correct_feature, reason, timestamp)
    IN  /\ feedback_data' = IF outcome = "ok"
                            THEN Append(feedback_data, feedback_entry)
                            ELSE feedback_data
        /\ feedback_file' = FileAfterWrite(feedback_file, feedback_entry, outcome)
        /\ call' = [op |-> "save_feedback", entry |-> feedback_entry,
                    outcome |-> outcome]
        /\ ret' = (outcome = "ok")
        /\ UNCHANGED <<similarity_threshold, max_feedback_examples, advisorVars, otherVars>>

SaveFeedback(bug_id, bug_title, predicted_feature, correct_feature, reason, timestamp, outcome) ==
    LET feedback_entry == FeedbackEntry(bug_id, bug_title, predicted_feature,
                                        correct_feature, reason, timestamp)
    IN  /\ feedback_data' = Append(feedback_data, feedback_entry)
        /\ feedback_file' = FileAfterWrite(feedback_file, feedback_entry, outcome)
        /\ call' = [op |-> "save_feedback", entry |-> feedback_entry,
                    outcome |-> outcome]
        /\ ret' = (outcome = "ok")
        /\ UNCHANGED <<similarity_threshold, max_feedback_examples, advisorVars, otherVars>>

(***************************************************************************)
(* FeedbackManager.load_feedback: csv.DictReader over the whole file       *)
(***************************************************************************)
\* csv.reader: the rows of a text, each row its fields.  The reader is
\* [state, field, row, rows]: where it is (at the start of a record, at the
\* start of a field, in an unquoted field, in a quoted field, or behind a
\* quote character met in a quoted field), the field and the row it is
\* reading, and the rows it has read.
ReaderStart ==
    [state |-> "start_record", field |-> <<>>, row |-> <<>>, rows |-> <<>>]

\* the reader after the character c
ReadChar(r, c) ==
    IF r.state = "in_quoted"
    THEN IF c = QuoteChar
         THEN [r EXCEPT !.state = "quote_in_quoted"]
         ELSE [r EXCEPT !.field = Append(r.field, c)]
    ELSE IF c \in LineEnds
    THEN [state |-> "start_record", field |-> <<>>, row |-> <<>>,
          rows  |-> Append(r.rows, IF r.state = "start_record" THEN <<>>
                                   ELSE Append(r.row, r.field))]
    ELSE IF c = Delimiter
    THEN [r EXCEPT !.state = "start_field", !.field = <<>>,
                   !.row = Append(r.row, r.field)]
    ELSE IF c = QuoteChar /\ r.state \in {"start_record", "start_field"}
    THEN [r EXCEPT !.state = "in_quoted"]
    ELSE IF c = QuoteChar /\ r.state = "quote_in_quoted"
    THEN [r EXCEPT !.state = "in_quoted", !.field = Append(r.field, c)]
    ELSE [r EXCEPT !.state = "in_field", !.field = Append(r.field, c)]

\* the rows read when the text ends
ReadEnd(r) ==
    IF r.state = "start_record" THEN r.rows
    ELSE Append(r.rows, Append(r.row, r.field))

\* (The bound variable holds the reader as a value, so that it is computed
\* once per character.)
RECURSIVE ParseFrom(_, _, _)
ParseFrom(content, i, r) ==
    IF i > Len(content) THEN ReadEnd(r)
    ELSE CHOOSE result \in
             {ParseFrom(content, i + 1, next) :
                 next \in {ReadChar(r, content[i])}} : TRUE

ParseCsv(content) == ParseFrom(content, 1, ReaderStart)

\* the key a header text is in a row's dict
KeyOf(text) == FieldValue("", text)

\* DictReader.__next__: dict(zip(fieldnames, row)), where a later field of
\* the same name wins; the fields a short row lacks are None (restval), and
\* the fields a long row has in excess are a list under the key None (restkey)
RowDict(header, row) ==
    LET keys   == [i \in DOMAIN header |-> KeyOf(header[i])]
        paired == {i \in DOMAIN header : i <= Len(row)}
        last(k) == CHOOSE i \in DOMAIN header :
                       /\ keys[i] = k
                       /\ \A j \in DOMAIN header : keys[j] = k => j <= i
        zipped == [k \in {keys[i] : i \in DOMAIN header} |->
                      IF last(k) \in paired
                      THEN FieldValue(k, row[last(k)]) ELSE NoneVal]
    IN  IF Len(row) > Len(header)
        THEN zipped @@ (NoneVal :> SubSeq(row, Len(header) + 1, Len(row)))
        ELSE zipped

\* list(csv.DictReader(f)): the first row names the fields, each later row
\* that is not blank is a dict
RECURSIVE DictsFrom(_, _, _)
DictsFrom(header, rows, i) ==
    IF i > Len(rows) THEN <<>>
    ELSE (IF rows[i] = <<>> THEN <<>> ELSE <<RowDict(header, rows[i])>>)
             \o DictsFrom(header, rows, i + 1)

\* (The bound variable holds the rows as a value, so that the text is read
\* once.)
DictReader(content) ==
    CHOOSE result \in
        {IF rows = <<>> THEN <<>> ELSE DictsFrom(rows[1], rows, 2) :
            rows \in {ParseCsv(content)}} : TRUE

\* lines 25-35, by how reading goes: "ok", or "read_fails" when open() or
\* the reading raises
LoadFeedback(file, outcome) ==
    IF ~file.exists THEN <<>>
    ELSE IF outcome = "ok" THEN DictReader(file.content)
    ELSE <<>>

(***************************************************************************)
(* FeedbackManager.get_relevant_feedback                                   *)
(***************************************************************************)
\* line 111's key: x.get("similarity", 0)
SortKey(x) == Get(x, "similarity", Int2Rat(0))

\* x put into a list sorted by descending key, behind the entries whose key
\* is not smaller: what a stable sort with reverse=True does
RECURSIVE InsertDescending(_, _)
InsertDescending(sorted, x) ==
    IF sorted = <<>> THEN <<x>>
    ELSE IF RatLt(SortKey(Head(sorted)), SortKey(x)) THEN <<x>> \o sorted
    ELSE <<Head(sorted)>> \o InsertDescending(Tail(sorted), x)

RECURSIVE SortFrom(_, _, _)
SortFrom(list, i, sorted) ==
    IF i > Len(list) THEN sorted
    ELSE SortFrom(list, i + 1, InsertDescending(sorted, list[i]))

\* x put into a list sorted by ascending key, behind the entries whose key
\* is not greater
RECURSIVE InsertAscending(_, _)
InsertAscending(sorted, x) ==
    IF sorted = <<>> THEN <<x>>
    ELSE IF RatLt(SortKey(x), SortKey(Head(sorted))) THEN <<x>> \o sorted
    ELSE <<Head(sorted)>> \o InsertAscending(Tail(sorted), x)

RECURSIVE SortAscendingFrom(_, _, _)
SortAscendingFrom(list, i, sorted) ==
    IF i > Len(list) THEN sorted
    ELSE SortAscendingFrom(list, i + 1, InsertAscending(sorted, list[i]))

Reverse(list) == [i \in DOMAIN list |-> list[Len(list) + 1 - i]]

\* (faulty variant) the list is sorted ascending and then reversed, which turns the
\* order of entries of equal similarity around
SortBySimilarity_ThenReverse(list) == Reverse(SortAscendingFrom(list, 1, <<>>))

\* line 111: list.sort(key=..., reverse=True)
SortBySimilarity(list) == SortFrom(list, 1, <<>>)

\* (faulty variant) the whole list is returned
Slice_All(list, n) == list

\* line 112: list[:n]
Slice(list, n) ==
    IF n >= 0 THEN SubSeq(list, 1, IF n < Len(list) THEN n ELSE Len(list))
    ELSE SubSeq(list, 1, IF Len(list) + n > 0 THEN Len(list) + n ELSE 0)

\* lines 101-108: the copies of the entries that reach the threshold, each
\* with its similarity, in the order of the store
RECURSIVE RelevantFrom(_, _, _, _)
RelevantFrom(data, i, threshold, bug_title) ==
    IF i > Len(data) THEN <<>>
    ELSE LET entry      == data[i]
             similarity == CalculateSimilarity(bug_title, entry["bug_title"])
         IN  (IF RatGe(similarity, threshold)
              THEN <<entry @@ ("similarity" :> similarity)>>
              ELSE <<>>)
                 \o RelevantFrom(data, i + 1, threshold, bug_title)

GetRelevantFeedback(data, threshold, limit, bug_title, bug_description) ==
    IF data = <<>> THEN <<>>
    ELSE Slice(SortBySimilarity(RelevantFrom(data, 1, threshold, bug_title)),
               limit)

(***************************************************************************)
(* FeedbackManager.get_feedback_prompt.  The prompt is a text: a sequence  *)
(* of tokens, where a token is one character of a bug title or a whole     *)
(* string; the empty string is the empty sequence.  The Chinese literals   *)
(* of the source are written in English.                                   *)
(***************************************************************************)
\* str(value) as a text
StrOf(value) ==
    IF value = "" THEN <<>> ELSE IF value = NoneVal THEN <<"None">> ELSE <<value>>

\* n / d rounded to a whole number, a tie going to the even neighbour
RoundHalfEven(n, d) ==
    LET q == n \div d
        r == n % d
    IN  IF 2 * r < d THEN q
        ELSE IF 2 * r > d THEN q + 1
        ELSE IF q % 2 = 0 THEN q ELSE q + 1

\* f"{similarity:.2f}"
Format2f(similarity) ==
    LET hundredths == RoundHalfEven(100 * similarity[1], similarity[2])
    IN  <<ToString(hundredths \div 100), ".",
          ToString((hundredths % 100) \div 10), ToString(hundredths % 10)>>

\* lines 158-159
SimilarityText(entry) ==
    LET similarity == Get(entry, "similarity", Int2Rat(0))
    IN  IF RatLt(Int2Rat(0), similarity)
        THEN <<"(similarity: ">> \o Format2f(similarity) \o <<")">>
        ELSE <<>>

ExampleMark == "- Bug '"

\* (faulty variant) the example names the predicted feature twice and the
\* correct one never
FeedbackExample_PredictedTwice(entry) ==
    <<ExampleMark>> \o StrOf(entry["bug_id"]) \o <<"': '">> \o entry["bug_title"]
        \o <<"' was first classified as '">> \o StrOf(entry["predicted_feature"])
        \o <<"', the correct classification is '">>
        \o StrOf(entry["predicted_feature"]) \o <<"'.">>
        \o StrOf(entry["reason"]) \o <<" ">> \o SimilarityText(entry)

\* lines 161-164: the line of one entry
FeedbackExample(entry) ==
    <<ExampleMark>> \o StrOf(entry["bug_id"]) \o <<"': '">> \o entry["bug_title"]
        \o <<"' was first classified as '">> \o StrOf(entry["predicted_feature"])
        \o <<"', the correct classification is '">>
        \o StrOf(entry["correct_feature"]) \o <<"'.">>
        \o StrOf(entry["reason"]) \o <<" ">> \o SimilarityText(entry)

\* line 166: "\n".join(feedback_examples)
RECURSIVE JoinExamples(_)
JoinExamples(relevant_feedback) ==
    IF relevant_feedback = <<>> THEN <<>>
    ELSE IF Len(relevant_feedback) = 1 THEN FeedbackExample(relevant_feedback[1])
    ELSE FeedbackExample(Head(relevant_feedback)) \o <<"\n">>
             \o JoinExamples(Tail(relevant_feedback))

\* lines 152-175: the prompt made of what get_relevant_feedback returned
FeedbackPrompt(relevant_feedback) ==
    IF relevant_feedback = <<>> THEN <<>>
    ELSE <<"\n", "        ", "Past feedback cases:", "\n", "        ">>
             \o JoinExamples(relevant_feedback)
             \o <<"\n", "\n", "        ",
                  "Mind the patterns of the cases above; they are ordered by relevance.",
                  "\n", "        ">>

\* entry["bug_title"] raises KeyError for a dict that lacks the key: the
\* dicts read from a file whose first row is not the header
HasTitles(data) == \A i \in DOMAIN data : "bug_title" \in DOMAIN data[i]

KeyError == [raised |-> "KeyError"]

GetFeedbackPrompt(data, threshold, limit, bug_title, bug_description) ==
    IF ~HasTitles(data) THEN KeyError
    ELSE FeedbackPrompt(GetRelevantFeedback(data, threshold, limit, bug_title,
                                            bug_description))

(***************************************************************************)
(* FastGPTClient.parse_analysis_result                                     *)
(* (src/jirabug/core/fastgpt_client.py).  A response is a text: a sequence *)
(* of characters.  A Chinese character of the source is written as the     *)
(* token of its pinyin syllable.  A value handed to the parser is          *)
(* [type, value]: the name of its Python type and, for a str, its text.    *)
(***************************************************************************)
FeatureIdPrefix  == <<"Te", "Xing", "I", "D", ":">>      \* line 134
ConfidencePrefix == <<"Xiang", "Guan", "Du", ":">>       \* line 136
ReasonPrefix     == <<"Li", "You", ":">>                 \* line 138
Undetermined     == <<"Wei", "Que", "Ding">>             \* line 126
UnknownLabel     == <<"Wei", "Zhi">>                     \* line 127

PyStr(text) == [type |-> "str", value |-> text]

\* str.startswith
StartsWith(text, prefix) ==
    /\ Len(text) >= Len(prefix)
    /\ SubSeq(text, 1, Len(prefix)) = prefix

\* str.replace(old, new): every occurrence of old, from the left, none
\* overlapping another
RECURSIVE Replace(_, _, _)
Replace(text, old, new) ==
    IF text = <<>> THEN <<>>
    ELSE IF StartsWith(text, old)
    THEN new \o Replace(SubSeq(text, Len(old) + 1, Len(text)), old, new)
    ELSE <<Head(text)>> \o Replace(Tail(text), old, new)

\* str.strip
RECURSIVE LStrip(_)
LStrip(text) ==
    IF text # <<>> /\ Head(text) \in Whitespace THEN LStrip(Tail(text)) ELSE text

RECURSIVE RStrip(_)
RStrip(text) ==
    IF text # <<>> /\ text[Len(text)] \in Whitespace
    THEN RStrip(SubSeq(text, 1, Len(text) - 1)) ELSE text

Strip(text) == RStrip(LStrip(text))

\* str.split(sep) for a separator of one character: the pieces between the
\* separators, the empty ones among them
RECURSIVE SplitOn(_, _)
SplitOn(text, sep) ==
    IF \A i \in DOMAIN text : text[i] # sep THEN <<text>>
    ELSE LET at == CHOOSE i \in DOMAIN text :
                       text[i] = sep /\ \A j \in 1..(i - 1) : text[j] # sep
         IN  <<SubSeq(text, 1, at - 1)>>
                 \o SplitOn(SubSeq(text, at + 1, Len(text)), sep)

\* lines 133-139: the fields <<feature_id, confidence, reason>> after a line
ParseLine(fields, raw_line) ==
    LET line == Strip(raw_line)
    IN  IF StartsWith(line, FeatureIdPrefix)
        THEN [fields EXCEPT ![1] = Strip(Replace(line, FeatureIdPrefix, <<>>))]
        ELSE IF StartsWith(line, ConfidencePrefix)
        THEN [fields EXCEPT ![2] = Strip(Replace(line, ConfidencePrefix, <<>>))]
        ELSE IF StartsWith(line, ReasonPrefix)
        THEN [fields EXCEPT ![3] = Strip(Replace(line, ReasonPrefix, <<>>))]
        ELSE fields

\* (The bound variable holds the fields as a value, so that they are
\* computed once per line.)
RECURSIVE ParseLines(_, _, _)
ParseLines(lines, i, fields) ==
    IF i > Len(lines) THEN fields
    ELSE CHOOSE result \in
             {ParseLines(lines, i + 1, next) :
                 next \in {ParseLine(fields, lines[i])}} : TRUE

Returned(value) == [raised |-> "", value |-> value]

\* (faulty variant) the value is searched for a line break without a look at
\* its type: a value that is not a str raises
ParseAnalysisResult_NoTypeCheck(analysis_result) ==
    IF analysis_result.type # "str" THEN [raised |-> "TypeError", value |-> <<>>]
    ELSE IF \E i \in DOMAIN analysis_result.value : analysis_result.value[i] = "\n"
    THEN Returned(ParseLines(SplitOn(analysis_result.value, "\n"), 1,
                             <<Undetermined, UnknownLabel, <<>>>>))
    ELSE Returned(<<Undetermined, UnknownLabel, <<>>>>)

\* lines 115-141
ParseAnalysisResult(analysis_result) ==
    LET feature_id == Undetermined
        confidence == UnknownLabel
        reason     == <<>>
    IN  IF /\ analysis_result.type = "str"
           /\ \E i \in DOMAIN analysis_result.value : analysis_result.value[i] = "\n"
        THEN Returned(ParseLines(SplitOn(analysis_result.value, "\n"), 1,
                                 <<feature_id, confidence, reason>>))
        ELSE Returned(<<feature_id, confidence, reason>>)

(***************************************************************************)
(* FastGPTClient.analyze_bug (src/jirabug/core/fastgpt_client.py).  The    *)
(* oracle is the chat completion service: what a call of it does is a      *)
(* reply [raises, text], the text being the content of the answer or, when *)
(* the call raises, str(e).  What analyze_bug does is its return value and *)
(* the exchanges it had, in their order.                                   *)
(***************************************************************************)
\* line 111: the literal that the message of the exception follows
ErrorPrefix == "FastGPT API call error: "

\* lines 47-63: the request of the keyword stage
KeywordsRequest(bug_title, bug_description) ==
    [stage |-> "keywords", bug_title |-> bug_title,
     bug_description |-> bug_description]

\* lines 68-103: the request of the classification stage
AnalysisRequest(bug_title, bug_description, keywords, feature_list) ==
    [stage |-> "classification", bug_title |-> bug_title,
     bug_description |-> bug_description, keywords |-> keywords,
     feature_list |-> feature_list]

Exchange(request, reply) ==
    [to |-> "oracle", request |-> request, raises |-> reply.raises,
     text |-> reply.text]

\* lines 110-113
OracleFailure(message, events) ==
    [ret |-> <<Undetermined, <<ErrorPrefix>> \o message>>, events |-> events]

\* (faulty variant) a keyword stage that fails is tried a second time
AnalyzeBug_Retry(self, bug_title, bug_description, feature_list, keywords_reply, final_reply) ==
    LET first == Exchange(KeywordsRequest(bug_title, bug_description),
                          keywords_reply)
    IN  IF keywords_reply.raises
        THEN OracleFailure(keywords_reply.text, <<first, first>>)
        ELSE LET keywords == Strip(keywords_reply.text)
                 second   == Exchange(AnalysisRequest(bug_title, bug_description,
                                          keywords, feature_list), final_reply)
             IN  IF final_reply.raises
                 THEN OracleFailure(final_reply.text, <<first, second>>)
                 ELSE LET result == Strip(final_reply.text)
                      IN  [ret |-> <<ParseAnalysisResult(PyStr(result)).value[1],
                                     result>>,
                           events |-> <<first, second>>]

\* lines 34-113
AnalyzeBug(self, bug_title, bug_description, feature_list, keywords_reply, final_reply) ==
    LET first == Exchange(KeywordsRequest(bug_title, bug_description),
                          keywords_reply)
    IN  IF keywords_reply.raises
        THEN OracleFailure(keywords_reply.text, <<first>>)
        ELSE LET keywords == Strip(keywords_reply.text)
                 second   == Exchange(AnalysisRequest(bug_title, bug_description,
                                          keywords, feature_list), final_reply)
             IN  IF final_reply.raises
                 THEN OracleFailure(final_reply.text, <<first, second>>)
                 ELSE LET result == Strip(final_reply.text)
                      IN  [ret |-> <<ParseAnalysisResult(PyStr(result)).value[1],
                                     result>>,
                           events |-> <<first, second>>]

(***************************************************************************)
(* analyze_bugs (src/jirabug/analysis/bug_analyzer.py), for bugs and       *)
(* features that are dicts.                                                *)
(***************************************************************************)
\* lines 85-111
PrepareFeatureDataForGpt(features) ==
    [i \in DOMAIN features |->
        [key |-> features[i]["key"], summary |-> features[i]["summary"]]]

\* lines 140-154
ExtractBugData(bug) ==
    [key         |-> Get(bug, "key", ""),
     summary     |-> Get(bug, "summary", <<>>),
     description |-> Get(bug, "description", <<>>),
     status      |-> Get(bug, "status", ""),
     created     |-> Get(bug, "created", "")]

\* lines 67-75: the entry of a bug; its keys are, in the source, "Bug ID" and
\* the Chinese for bug title, bug status, created, related feature,
\* relatedness and reason of the analysis
ResultEntry(bug_data, feature_id, confidence, reason) ==
    [bug_id     |-> bug_data["key"],
     bug_title  |-> bug_data["summary"],
     bug_status |-> bug_data["status"],
     created    |-> bug_data["created"],
     feature    |-> feature_id,
     confidence |-> confidence,
     reason     |-> reason]

\* lines 45-77: what one turn of the loop makes of a bug: the entry it adds
\* to results, and the exchanges of its analyze_bug call
AnalyzeOne(self, bug, feature_list_for_gpt, keywords_reply, final_reply) ==
    LET bug_data == ExtractBugData(bug)
        analysed == AnalyzeBug(self, bug_data["summary"], bug_data["description"],
                               feature_list_for_gpt, keywords_reply, final_reply)
        analysis_result == analysed.ret[2]
        parsed   == ParseAnalysisResult(PyStr(analysis_result)).value
    IN  [entry  |-> ResultEntry(bug_data, parsed[1], parsed[2], parsed[3]),
         events |-> analysed.events]

(***************************************************************************)
(* The inputs of the quality scorer.                                       *)
(***************************************************************************)
Absent == "<absent>"              \* marks a key the bug dict does not hold

StatusInputs   == {"In Progress", "Closed", "Backlog", "Rejected", NoneVal, Absent}
SeverityInputs == {"Major", "Trivial", "Cosmetic", Absent}

Field(key, value) == IF value = Absent THEN <<>> ELSE key :> value

MkBug(status, severity) == Field("status", status) @@ Field("severity", severity)

BugInputs == {MkBug(st, sv) : st \in StatusInputs, sv \in SeverityInputs}

OpenBlocker   == MkBug("Open", "Blocker")
ResolvedMinor == MkBug("Resolved", "Minor")

Repeat(x, n) == [i \in 1..n |-> x]

RECURSIVE SeqsUpTo(_, _)
SeqsUpTo(S, n) ==
    IF n = 0 THEN {<<>>}
    ELSE LET shorter == SeqsUpTo(S, n - 1)
         IN  shorter \cup {Append(s, x) : s \in shorter, x \in S}

BugListInputs ==
    {Repeat(OpenBlocker, k) \o Repeat(ResolvedMinor, r) \o tail :
        k \in 0..MaxBlockers, r \in 0..MaxResolved,
        tail \in SeqsUpTo(BugInputs, MaxMixed)}

RateInputs == {Int2Rat(0), Rat(100, 3), Int2Rat(79), Int2Rat(80), Int2Rat(100)}

ScoreInputs == {Rat(k, ScoreSteps) : k \in 0..(100 * ScoreSteps)}

FeatureInputs == {[key |-> "F1", summary |-> "feature one"]}

(***************************************************************************)
(* Calls of the quality scorer.  The scorer keeps no state between calls,  *)
(* so a run makes one call: it records the call and what it returned.      *)
(***************************************************************************)
NoCall == [op |-> "none"]

AnalyzeFeatureQualityCall(feature, linked_bugs) ==
    /\ call' = [op |-> "analyze_feature_quality",
                feature |-> feature, linked_bugs |-> linked_bugs]
    /\ ret' = AnalyzeFeatureQuality(feature, linked_bugs)
    /\ UNCHANGED <<managerVars, advisorVars, otherVars>>

CalculateQualityScoreCall(bugs, resolution_rate) ==
    /\ call' = [op |-> "_calculate_quality_score",
                bugs |-> bugs, resolution_rate |-> resolution_rate]
    /\ ret' = CalculateQualityScore(bugs, resolution_rate)
    /\ UNCHANGED <<managerVars, advisorVars, otherVars>>

DetermineQualityGradeCall(quality_score) ==
    /\ call' = [op |-> "_determine_quality_grade", quality_score |-> quality_score]
    /\ ret' = DetermineQualityGrade(quality_score)
    /\ UNCHANGED <<managerVars, advisorVars, otherVars>>

\* FeedbackManager.__init__ on a feedback file that does not exist
NoFile == [exists |-> FALSE, content |-> <<>>]

InitManager ==
    /\ feedback_data = <<>>
    /\ feedback_file = NoFile
    /\ similarity_threshold = Rat(7, 10)
    /\ max_feedback_examples = 5

\* no FastGPTClient is made and no batch is under way
NoAdvisor ==
    /\ client = NoneVal
    /\ bugs_left = <<>>
    /\ results = <<>>
    /\ trace = <<>>

\* no JiraClient has cached anything and no review of results is under way
NoOthers ==
    /\ cache = <<>>
    /\ bug_results = <<>>

Init ==
    /\ call = NoCall
    /\ ret = NoneVal
    /\ InitManager
    /\ NoAdvisor
    /\ NoOthers

AnalyzeStep ==
    /\ call = NoCall
    /\ \E feature \in FeatureInputs, bugs \in BugListInputs :
        AnalyzeFeatureQualityCall(feature, bugs)

ScoreStep ==
    /\ call = NoCall
    /\ \E bugs \in BugListInputs, rate \in RateInputs :
        CalculateQualityScoreCall(bugs, rate)

GradeStep ==
    /\ call = NoCall
    /\ \E score \in ScoreInputs : DetermineQualityGradeCall(score)

NextQuality == AnalyzeStep \/ ScoreStep

SpecQuality == Init /\ [][NextQuality]_vars

(***************************************************************************)
(* Calls of analyze_feature_quality on bugs with timestamps.               *)
(***************************************************************************)
\* texts of the layouts _parse_datetime knows, and one it does not know
DateInputs ==
    {[fmt |-> "iso_z",     t |-> 10 * 24 + 5],
     [fmt |-> "iso_naive", t |-> 11 * 24 + 23],
     [fmt |-> "ymd",       t |-> 12 * 24],
     [fmt |-> "slash_hms", t |-> 9 * 24 + 6],
     [fmt |-> "other"]}

AbsentDate == [fmt |-> "absent"]   \* marks a timestamp key the bug does not hold

CreatedInputs    == DateInputs \cup {AbsentDate, NoDate}
ResolutionInputs == DateInputs \cup {AbsentDate, NoDate, EmptyDate}

DateField(key, value) == IF value = AbsentDate THEN <<>> ELSE key :> value

MkDatedBug(created, resolutiondate) ==
    ("status" :> "Closed") @@ DateField("created", created)
        @@ DateField("resolutiondate", resolutiondate)

DatedBugInputs ==
    {MkDatedBug(created, resolutiondate) :
        created \in CreatedInputs, resolutiondate \in ResolutionInputs}

DatedBugListInputs == SeqsUpTo(DatedBugInputs, MaxDated)

AnalyzeDatedStep ==
    /\ call = NoCall
    /\ \E feature \in FeatureInputs, bugs \in DatedBugListInputs :
        AnalyzeFeatureQualityCall(feature, bugs)

NextTimes == AnalyzeDatedStep

SpecTimes == Init /\ [][NextTimes]_vars

NextGrade == GradeStep

SpecGrade == Init /\ [][NextGrade]_vars

(***************************************************************************)
(* Calls of _calculate_similarity, which reads no state of the manager.    *)
(***************************************************************************)
Chars == {"a", "A", "b", " "}

TextInputs == SeqsUpTo(Chars, MaxTextLen)

CalculateSimilarityCall(text1, text2) ==
    /\ call' = [op |-> "_calculate_similarity", text1 |-> text1, text2 |-> text2]
    /\ ret' = CalculateSimilarity(text1, text2)
    /\ UNCHANGED <<managerVars, advisorVars, otherVars>>

SimilarityStep ==
    /\ call = NoCall
    /\ \E text1 \in TextInputs, text2 \in TextInputs :
           CalculateSimilarityCall(text1, text2)

NextSimilarity == SimilarityStep

SpecSimilarity == Init /\ [][NextSimilarity]_vars

(***************************************************************************)
(* The feedback manager in use: feedback is saved and looked up.           *)
(***************************************************************************)
TitleAB == <<"a", " ", "b">>
TitleA  == <<"A">>

SaveInputs ==
    {[bug_id |-> "BUG-1", bug_title |-> TitleAB, predicted_feature |-> "FEAT-1",
      correct_feature |-> "FEAT-2", reason |-> "wrong module"],
     [bug_id |-> "BUG-2", bug_title |-> TitleAB, predicted_feature |-> "FEAT-2",
      correct_feature |-> "FEAT-1", reason |-> NoneVal],
     [bug_id |-> "BUG-3", bug_title |-> TitleA, predicted_feature |-> "FEAT-1",
      correct_feature |-> "FEAT-2", reason |-> ""]}

TimestampInputs   == {"2024-01-01 00:00:00"}
WriteOutcomes     == {"ok", "open_fails", "write_fails", "close_fails"}
QueryTitleInputs  == {TitleAB, <<"a">>, <<>>}
DescriptionInputs == {<<>>, <<"a">>}
ThresholdInputs   == {Int2Rat(0), Rat(1, 2), Rat(7, 10)}
LimitInputs       == 0..MaxLimit

\* a manager made on a feedback file that does not exist, whose caller then
\* sets the two tuning attributes
InitFeedback ==
    /\ call = NoCall
    /\ ret = NoneVal
    /\ feedback_data = <<>>
    /\ feedback_file = NoFile
    /\ similarity_threshold \in ThresholdInputs
    /\ max_feedback_examples \in LimitInputs
    /\ NoAdvisor
    /\ NoOthers

SaveFeedbackStep ==
    /\ Len(feedback_data) < MaxEntries
    /\ \E args \in SaveInputs, timestamp \in TimestampInputs,
          outcome \in WriteOutcomes :
           SaveFeedback(args.bug_id, args.bug_title, args.predicted_feature,
                        args.correct_feature, args.reason, timestamp, outcome)

GetRelevantFeedbackCall(bug_title, bug_description) ==
    /\ call' = [op |-> "get_relevant_feedback", bug_title |-> bug_title,
                bug_description |-> bug_description]
    /\ ret' = IF HasTitles(feedback_data)
              THEN GetRelevantFeedback(feedback_data, similarity_threshold,
                                       max_feedback_examples, bug_title,
                                       bug_description)
              ELSE KeyError
    /\ UNCHANGED <<managerVars, advisorVars, otherVars>>

GetRelevantFeedbackStep ==
    \E bug_title \in QueryTitleInputs, bug_description \in DescriptionInputs :
        GetRelevantFeedbackCall(bug_title, bug_description)

NextFeedback == SaveFeedbackStep \/ GetRelevantFeedbackStep

SpecFeedback == InitFeedback /\ [][NextFeedback]_vars

(***************************************************************************)
(* The feedback store over its life: corrections are saved, with writes    *)
(* that succeed or fail, feedback is looked up and made into prompts, and  *)
(* a new manager is made on the same file (the next run of the tool).      *)
(***************************************************************************)
\* two titles of the same two words, which hold the characters the csv
\* dialect quotes
TitleCommaQuote == <<"a", ",", "\"", " ", "b">>
TitleTwoLines   == <<"b", "\n", "a", ",", "\"">>

StoreInputs ==
    {[bug_id |-> "BUG-1", bug_title |-> TitleCommaQuote,
      predicted_feature |-> "FEAT-1", correct_feature |-> "FEAT-2",
      reason |-> "wrong module"],
     [bug_id |-> "BUG-2", bug_title |-> TitleTwoLines,
      predicted_feature |-> "FEAT-2", correct_feature |-> "FEAT-1",
      reason |-> NoneVal]}

StoreTitleInputs == {TitleCommaQuote, <<"b">>, <<"c">>}
ReadOutcomes     == {"ok", "read_fails"}

\* the rows in the file, the header among them
FileRows(file) == Len(ParseCsv(file.content))

StoreSaveStep ==
    /\ Len(feedback_data) < MaxSaves
    /\ FileRows(feedback_file) <= MaxSaves
    /\ \E args \in StoreInputs, timestamp \in TimestampInputs,
          outcome \in WriteOutcomes :
           SaveFeedback(args.bug_id, args.bug_title, args.predicted_feature,
                        args.correct_feature, args.reason, timestamp, outcome)

StoreQueryStep ==
    \E bug_title \in StoreTitleInputs : GetRelevantFeedbackCall(bug_title, <<>>)

GetFeedbackPromptCall(bug_title, bug_description) ==
    /\ call' = [op |-> "get_feedback_prompt", bug_title |-> bug_title,
                bug_description |-> bug_description]
    /\ ret' = GetFeedbackPrompt(feedback_data, similarity_threshold,
                                max_feedback_examples, bug_title,
                                bug_description)
    /\ UNCHANGED <<managerVars, advisorVars, otherVars>>

StorePromptStep ==
    \E bug_title \in StoreTitleInputs : GetFeedbackPromptCall(bug_title, <<>>)

\* lines 18-23: FeedbackManager(feedback_file) on the file as it is now
NewManager(outcome) ==
    /\ feedback_data' = LoadFeedback(feedback_file, outcome)
    /\ similarity_threshold' = Rat(7, 10)
    /\ max_feedback_examples' = 5
    /\ call' = [op |-> "__init__", outcome |-> outcome]
    /\ ret' = NoneVal
    /\ UNCHANGED <<feedback_file, advisorVars, otherVars>>

StoreRestartStep == \E outcome \in ReadOutcomes : NewManager(outcome)

NextStore ==
    StoreSaveStep \/ StoreQueryStep \/ StorePromptStep \/ StoreRestartStep

SpecStore == Init /\ [][NextStore]_vars

(***************************************************************************)
(* Calls of parse_analysis_result, which keeps no state: a run makes one   *)
(* call.                                                                   *)
(***************************************************************************)
\* the texts made of at most n of the pieces
RECURSIVE ConcatsUpTo(_, _)
ConcatsUpTo(pieces, n) ==
    IF n = 0 THEN {<<>>}
    ELSE LET shorter == ConcatsUpTo(pieces, n - 1)
         IN  shorter \cup {text \o piece : text \in shorter, piece \in pieces}

ValuePieces == {<<" ">>, <<"x">>, FeatureIdPrefix, ReasonPrefix}
ValueInputs == ConcatsUpTo(ValuePieces, MaxValuePieces)

ConfidenceInputs == {<<" ", "Gao">>, <<>>}

\* the three lines of the response the oracle is asked for
ThreeLines(feature_id, confidence, reason) ==
    FeatureIdPrefix \o feature_id \o <<"\n">> \o ConfidencePrefix \o confidence
        \o <<"\n">> \o ReasonPrefix \o reason

ThreeLineInputs ==
    {ThreeLines(feature_id, confidence, reason) :
        feature_id \in ValueInputs, confidence \in ConfidenceInputs,
        reason \in ValueInputs}

ResponsePieces ==
    {FeatureIdPrefix, ConfidencePrefix, ReasonPrefix, <<"\n">>, <<" ">>, <<"x">>}

TextResponseInputs == ConcatsUpTo(ResponsePieces, MaxPieces)

\* values that are no str: None and a number
NonStrInputs == {[type |-> "NoneType", value |-> <<"None">>],
                 [type |-> "int", value |-> <<"4", "2">>]}

AnalysisResultInputs ==
    {PyStr(text) : text \in ThreeLineInputs \cup TextResponseInputs}
        \cup NonStrInputs

ParseAnalysisResultCall(analysis_result) ==
    /\ call' = [op |-> "parse_analysis_result", analysis_result |-> analysis_result]
    /\ ret' = ParseAnalysisResult(analysis_result)
    /\ UNCHANGED <<managerVars, advisorVars, otherVars>>

ParseStep ==
    /\ call = NoCall
    /\ \E analysis_result \in AnalysisResultInputs :
           ParseAnalysisResultCall(analysis_result)

NextParse == ParseStep

SpecParse == Init /\ [][NextParse]_vars

(***************************************************************************)
(* Calls of analyze_bug and of analyze_bugs on a FastGPTClient.  A run     *)
(* makes one direct call of analyze_bug, or one call of analyze_bugs whose *)
(* loop takes the bugs one by one.                                         *)
(***************************************************************************)
\* FastGPTClient.__init__, with and without a feedback manager
ClientInputs ==
    {[feedback_manager |-> "FeedbackManager"], [feedback_manager |-> NoneVal]}

AdvisorBugInputs ==
    {[key |-> "BUG-1", summary |-> <<"login", " ", "fails">>,
      description |-> <<"after", " ", "update">>, status |-> "Open",
      created |-> "2024-01-02"],
     [key |-> "BUG-2", summary |-> <<"crash">>]}

BatchInputs == SeqsUpTo(AdvisorBugInputs, MaxBugs)

FeatureListInputs ==
    {<<>>,
     <<[key |-> "FEAT-1", summary |-> <<"login">>]>>,
     <<[key |-> "FEAT-1", summary |-> <<"login">>],
       [key |-> "FEAT-2", summary |-> <<"export">>]>>}

\* what the oracle does at the keyword stage
KeywordsReplies ==
    {[raises |-> FALSE, text |-> <<" ", "login", "\n">>],
     [raises |-> TRUE,  text |-> <<"Request timed out.">>]}

\* what the oracle does at the classification stage: the three lines it is
\* asked for, a text without them, and failures whose message is one line
\* or several
FinalReplies ==
    {[raises |-> FALSE,
      text |-> ThreeLines(<<" ", "FEAT-1">>, <<" ", "Gao">>, <<" ", "x">>)
                   \o <<"\n">>],
     [raises |-> FALSE, text |-> <<"x">>],
     [raises |-> TRUE,  text |-> <<"Connection error.">>],
     [raises |-> TRUE,
      text |-> <<"Error code: 400", "\n">> \o FeatureIdPrefix
                   \o <<" ", "FEAT-9">>]}

InitAdvisor ==
    /\ call = NoCall
    /\ ret = NoneVal
    /\ InitManager
    /\ client \in ClientInputs
    /\ bugs_left = <<>>
    /\ results = <<>>
    /\ trace = <<>>
    /\ NoOthers

AnalyzeBugCall(bug_title, bug_description, feature_list, keywords_reply, final_reply) ==
    LET analysed == AnalyzeBug(client, bug_title, bug_description, feature_list,
                               keywords_reply, final_reply)
    IN  /\ call' = [op |-> "analyze_bug", bug_title |-> bug_title,
                    bug_description |-> bug_description,
                    feature_list |-> feature_list]
        /\ ret' = analysed.ret
        /\ trace' = Append(trace, analysed.events)
        /\ UNCHANGED <<managerVars, client, bugs_left, results, otherVars>>

AnalyzeBugStep ==
    /\ call = NoCall
    /\ \E bug \in AdvisorBugInputs, feature_list \in FeatureListInputs,
          keywords_reply \in KeywordsReplies, final_reply \in FinalReplies :
           AnalyzeBugCall(ExtractBugData(bug)["summary"],
                          ExtractBugData(bug)["description"], feature_list,
                          keywords_reply, final_reply)

\* bug_analyzer.py lines 34-42: up to the loop
AnalyzeBugsStart(bugs, features) ==
    /\ call' = [op |-> "analyze_bugs", bugs |-> bugs, features |-> features,
                feature_list_for_gpt |-> PrepareFeatureDataForGpt(features),
                pc |-> "loop"]
    /\ bugs_left' = bugs
    /\ results' = <<>>
    /\ UNCHANGED <<ret, managerVars, client, trace, otherVars>>

AnalyzeBugsStartStep ==
    /\ call = NoCall
    /\ \E bugs \in BatchInputs, features \in FeatureListInputs :
           AnalyzeBugsStart(bugs, features)

\* lines 44-80: one turn of the loop
AnalyzeBugsLoop(keywords_reply, final_reply) ==
    LET turn == AnalyzeOne(client, Head(bugs_left), call.feature_list_for_gpt,
                           keywords_reply, final_reply)
    IN  /\ results' = Append(results, turn.entry)
        /\ bugs_left' = Tail(bugs_left)
        /\ trace' = Append(trace, turn.events)
        /\ UNCHANGED <<call, ret, managerVars, client, otherVars>>

AnalyzeBugsLoopStep ==
    /\ call.op = "analyze_bugs"
    /\ call.pc = "loop"
    /\ bugs_left # <<>>
    /\ \E keywords_reply \in KeywordsReplies, final_reply \in FinalReplies :
           AnalyzeBugsLoop(keywords_reply, final_reply)

\* line 82
AnalyzeBugsReturn ==
    /\ call.op = "analyze_bugs"
    /\ call.pc = "loop"
    /\ bugs_left = <<>>
    /\ call' = [call EXCEPT !.pc = "done"]
    /\ ret' = results
    /\ UNCHANGED <<managerVars, client, bugs_left, results, trace, otherVars>>

NextAdvisor ==
    \/ AnalyzeBugStep
    \/ AnalyzeBugsStartStep
    \/ AnalyzeBugsLoopStep
    \/ AnalyzeBugsReturn

SpecAdvisor == InitAdvisor /\ [][NextAdvisor]_vars

(***************************************************************************)
(* JiraClient (src/jirabug/core/jira-client.py).  The issues that match    *)
(* the query are numbered 1..total in the order in which Jira lists them.  *)
(* cache is the cache directory: it maps a cache key to the list pickled   *)
(* in the file of that key.  The locals of a get_all_issues call under way *)
(* are held in call, with the number of page fetches it made.              *)
(***************************************************************************)
max_results == 100                                        \* line 107

Issues(total) == [i \in 1..total |-> i]

Min(a, b) == IF a < b THEN a ELSE b

\* lines 52-78: get_issues, by whether search_issues raises
GetIssues(total, start_at, fails) ==
    IF fails THEN NoneVal
    ELSE SubSeq(Issues(total), start_at + 1, Min(start_at + max_results, total))

\* the numbers of matching issues: full pages and a rest
TotalInputs ==
    {full * max_results + rest : full \in 0..MaxFullPages, rest \in {0, 1, 99}}

CacheKeyInputs == {NoneVal, "bugs"}

\* no call is under way
Idle == call.op \in {"none", "clear_cache"}
            \/ (call.op = "get_all_issues" /\ call.pc = "done")

CallsMade == IF call.op = "none" THEN 0 ELSE call.n

\* lines 92-107: up to the loop; a cache file that is there and can be read
\* is returned
GetAllIssuesStart(cache_key, total, readable) ==
    LET cached == cache_key # NoneVal /\ cache_key \in DOMAIN cache /\ readable
    IN  /\ call' = [op |-> "get_all_issues", n |-> CallsMade + 1,
                    cache_key |-> cache_key, total |-> total,
                    pc |-> IF cached THEN "done" ELSE "loop",
                    from_cache |-> cached, all_issues |-> <<>>, start_at |-> 0,
                    fetches |-> 0, failed |-> FALSE, saved |-> FALSE]
        /\ ret' = IF cached THEN cache[cache_key] ELSE NoneVal
        /\ UNCHANGED <<managerVars, advisorVars, cache, bug_results>>

GetAllIssuesStartStep ==
    /\ Idle
    /\ CallsMade < MaxCalls
    /\ \E cache_key \in CacheKeyInputs, total \in TotalInputs,
          readable \in BOOLEAN :
           GetAllIssuesStart(cache_key, total, readable)

\* lines 109-121: one turn of the loop
GetAllIssuesPage(fails) ==
    LET issues == GetIssues(call.total, call.start_at, fails)
        fetched == [call EXCEPT !.fetches = @ + 1, !.failed = @ \/ fails]
    IN  /\ call' = IF fails \/ issues = <<>>
                   THEN [fetched EXCEPT !.pc = "save"]
                   ELSE IF Len(issues) < max_results
                   THEN [fetched EXCEPT !.pc = "save",
                                        !.all_issues = @ \o issues]
                   ELSE [fetched EXCEPT !.all_issues = @ \o issues,
                                        !.start_at = @ + max_results]
        /\ UNCHANGED <<ret, managerVars, advisorVars, cache, bug_results>>

GetAllIssuesPageStep ==
    /\ call.op = "get_all_issues"
    /\ call.pc = "loop"
    /\ \E fails \in BOOLEAN : GetAllIssuesPage(fails)

\* lines 123-132: the list is pickled under the key, then returned
GetAllIssuesReturn(written) ==
    LET save == call.cache_key # NoneVal /\ call.all_issues # <<>> /\ written
    IN  /\ cache' = IF save
                    THEN (call.cache_key :> call.all_issues) @@ cache
                    ELSE cache
        /\ call' = [call EXCEPT !.pc = "done", !.saved = save]
        /\ ret' = call.all_issues
        /\ UNCHANGED <<managerVars, advisorVars, bug_results>>

GetAllIssuesReturnStep ==
    /\ call.op = "get_all_issues"
    /\ call.pc = "save"
    /\ \E written \in BOOLEAN : GetAllIssuesReturn(written)

\* lines 189-206
ClearCache(cache_key) ==
    /\ cache' = IF cache_key # NoneVal
                THEN [key \in DOMAIN cache \ {cache_key} |-> cache[key]]
                ELSE <<>>
    /\ call' = [op |-> "clear_cache", n |-> CallsMade + 1, cache_key |-> cache_key]
    /\ ret' = NoneVal
    /\ UNCHANGED <<managerVars, advisorVars, bug_results>>

ClearCacheStep ==
    /\ Idle
    /\ CallsMade < MaxCalls
    /\ \E cache_key \in CacheKeyInputs : ClearCache(cache_key)

NextJira ==
    \/ GetAllIssuesStartStep
    \/ GetAllIssuesPageStep
    \/ GetAllIssuesReturnStep
    \/ ClearCacheStep

SpecJira == Init /\ [][NextJira]_vars

(***************************************************************************)
(* interactive_feedback_mode (src/jirabug/analysis/feedback.py).  What the *)
(* user types is a text: a sequence of characters, a feature id being one  *)
(* token of it.  A result entry has the keys of ResultEntry.               *)
(***************************************************************************)
Digits ==
    ("0" :> 0) @@ ("1" :> 1) @@ ("2" :> 2) @@ ("3" :> 3) @@ ("4" :> 4) @@
    ("5" :> 5) @@ ("6" :> 6) @@ ("7" :> 7) @@ ("8" :> 8) @@ ("9" :> 9)

\* a character that str.isdigit() accepts and int() does not
SuperscriptTwo == "SUPERSCRIPT TWO"

\* str.isdigit()
IsDigit(text) ==
    /\ text # <<>>
    /\ \A i \in DOMAIN text : text[i] \in DOMAIN Digits \cup {SuperscriptTwo}

RECURSIVE DecimalValue(_, _)
DecimalValue(digits, value) ==
    IF digits = <<>> THEN value
    ELSE DecimalValue(Tail(digits), 10 * value + Digits[Head(digits)])

ValueError == [raised |-> "ValueError"]

\* int(text): whitespace around the numeral and one sign before it are
\* accepted; anything else raises ValueError
PyInt(text) ==
    LET stripped == Strip(text)
        signed   == stripped # <<>> /\ Head(stripped) \in {"+", "-"}
        digits   == IF signed THEN Tail(stripped) ELSE stripped
    IN  IF digits = <<>> \/ \E i \in DOMAIN digits : digits[i] \notin DOMAIN Digits
        THEN ValueError
        ELSE [raised |-> "",
              value  |-> IF signed /\ Head(stripped) = "-"
                         THEN 0 - DecimalValue(digits, 0)
                         ELSE DecimalValue(digits, 0)]

\* line 203
FeaturesById(feature_map) ==
    [key \in {feature_map[i]["key"] : i \in DOMAIN feature_map} |->
        LET last == CHOOSE i \in DOMAIN feature_map :
                        /\ feature_map[i]["key"] = key
                        /\ \A j \in DOMAIN feature_map :
                               feature_map[j]["key"] = key => j <= i
        IN  feature_map[last]["summary"]]

\* the order of the feature ids as str
KeyRank == ("F1" :> 1) @@ ("F2" :> 2) @@ ("F3" :> 3)

\* line 205: sorted(features_by_id.keys())
RECURSIVE SortedKeys(_)
SortedKeys(keys) ==
    IF keys = {} THEN <<>>
    ELSE LET least == CHOOSE k \in keys : \A other \in keys : KeyRank[k] <= KeyRank[other]
         IN  <<least>> \o SortedKeys(keys \ {least})

\* the str a typed text is
Typed(text) == IF text = <<>> THEN "" ELSE IF Len(text) = 1 THEN text[1]
               ELSE ToString(text)

QuitWords == {<<"q">>, <<"q", "u", "i", "t">>, <<"e", "x", "i", "t">>}   \* line 224

ConfirmedByUser == "Gao (YongHu QueRen)"                                \* line 277

\* lines 252-260: the feature the user chose, None for no valid choice; the
\* int() of line 254 may raise
CorrectFeature(feature_selection, features_by_id, features_list) ==
    IF IsDigit(feature_selection)
    THEN LET f_idx == PyInt(feature_selection)
         IN  IF f_idx.raised # "" THEN ValueError
             ELSE IF 0 <= f_idx.value - 1 /\ f_idx.value - 1 < Len(features_list)
             THEN Returned(features_list[f_idx.value])
             ELSE Returned(NoneVal)
    ELSE IF Typed(feature_selection) \in DOMAIN features_by_id
    THEN Returned(Typed(feature_selection))
    ELSE Returned(NoneVal)

\* lines 222-285: what one turn of the loop does with what the user types:
\*   "quit"     the loop ends
\*   "none"     nothing is changed (out of range, no number, cancelled, no
\*              valid feature)
\*   "correct"  entry idx (from 0) is corrected to correct_feature
\* with the inputs the turn has read
Turn(entries, feature_map, selection, feature_selection) ==
    LET features_by_id == FeaturesById(feature_map)
        features_list  == SortedKeys(DOMAIN features_by_id)
        idx            == PyInt(selection)
        nothing        == [kind |-> "none", read |-> 1]
    IN  IF Lower(selection) \in QuitWords THEN [kind |-> "quit", read |-> 1]
        ELSE IF idx.raised # "" THEN nothing
        ELSE IF ~(0 <= idx.value - 1 /\ idx.value - 1 < Len(entries)) THEN nothing
        ELSE IF Lower(feature_selection) = <<"c">> THEN [kind |-> "none", read |-> 2]
        ELSE LET correct_feature ==
                     CorrectFeature(feature_selection, features_by_id, features_list)
             IN  IF correct_feature.raised # "" THEN [kind |-> "none", read |-> 2]
                 ELSE IF correct_feature.value \in {NoneVal, ""}
                 THEN [kind |-> "none", read |-> 2]
                 ELSE [kind |-> "correct", read |-> 3, idx |-> idx.value - 1,
                       correct_feature |-> correct_feature.value]

\* lines 276-279: the entry after the correction
Corrected(entry, correct_feature, reason) ==
    (IF reason # "" THEN "reason" :> reason ELSE <<>>)
        @@ ("feature" :> correct_feature) @@ ("confidence" :> ConfirmedByUser)
        @@ entry

\* (faulty variant) the result is updated before the feedback is saved, so
\* that the feedback holds the corrected feature as the predicted one
FeedbackTurn_UpdateFirst(selection, feature_selection, reason, timestamp, outcome) ==
    LET turn == Turn(bug_results, call.feature_map, selection, feature_selection)
    IN  /\ call' = [call EXCEPT !.turns = @ + 1, !.kind = turn.kind,
                       !.pc = IF turn.kind = "quit" THEN "done" ELSE "loop",
                       !.selection = selection,
                       !.feature_selection =
                           IF turn.read >= 2 THEN feature_selection ELSE <<>>,
                       !.reason = IF turn.read >= 3 THEN Typed(reason) ELSE "",
                       !.outcome = IF turn.read >= 3 THEN outcome ELSE ""]
        /\ ret' = IF turn.kind = "quit" THEN bug_results ELSE ret
        /\ IF turn.kind = "correct"
           THEN LET updated == Corrected(bug_results[turn.idx + 1],
                                         turn.correct_feature, Typed(reason))
                    feedback_entry ==
                        FeedbackEntry(updated["bug_id"], updated["bug_title"],
                                      updated["feature"], turn.correct_feature,
                                      Typed(reason), timestamp)
                IN  /\ feedback_data' = Append(feedback_data, feedback_entry)
                    /\ feedback_file' =
                           FileAfterWrite(feedback_file, feedback_entry, outcome)
                    /\ bug_results' = [bug_results EXCEPT ![turn.idx + 1] = updated]
           ELSE UNCHANGED <<feedback_data, feedback_file, bug_results>>
        /\ UNCHANGED <<similarity_threshold, max_feedback_examples, advisorVars,
                       cache>>

\* lines 207-287: one turn of the loop, with what the user types in it and
\* how the write of save_feedback goes
FeedbackTurn(selection, feature_selection, reason, timestamp, outcome) ==
    LET turn == Turn(bug_results, call.feature_map, selection, feature_selection)
    IN  /\ call' = [call EXCEPT !.turns = @ + 1, !.kind = turn.kind,
                       !.pc = IF turn.kind = "quit" THEN "done" ELSE "loop",
                       !.selection = selection,
                       !.feature_selection =
                           IF turn.read >= 2 THEN feature_selection ELSE <<>>,
                       !.reason = IF turn.read >= 3 THEN Typed(reason) ELSE "",
                       !.outcome = IF turn.read >= 3 THEN outcome ELSE ""]
        /\ ret' = IF turn.kind = "quit" THEN bug_results ELSE ret
        /\ IF turn.kind = "correct"
           THEN LET selected_bug == bug_results[turn.idx + 1]
                    feedback_entry ==
                        FeedbackEntry(selected_bug["bug_id"],
                                      selected_bug["bug_title"],
                                      selected_bug["feature"], turn.correct_feature,
                                      Typed(reason), timestamp)
                IN  /\ feedback_data' = Append(feedback_data, feedback_entry)
                    /\ feedback_file' =
                           FileAfterWrite(feedback_file, feedback_entry, outcome)
                    /\ bug_results' =
                           [bug_results EXCEPT ![turn.idx + 1] =
                               Corrected(selected_bug, turn.correct_feature,
                                         Typed(reason))]
           ELSE UNCHANGED <<feedback_data, feedback_file, bug_results>>
        /\ UNCHANGED <<similarity_threshold, max_feedback_examples, advisorVars,
                       cache>>

\* lines 192-205: up to the loop
InteractiveFeedbackMode(entries, feature_map) ==
    /\ call' = [op |-> "interactive_feedback_mode", pc |-> "loop",
                feature_map |-> feature_map, turns |-> 0, kind |-> "",
                selection |-> <<>>, feature_selection |-> <<>>, reason |-> "",
                outcome |-> ""]
    /\ bug_results' = entries
    /\ UNCHANGED <<ret, managerVars, advisorVars, cache>>

ReviewedBug(key, title) == [key |-> key, summary |-> title]

ResultInputs ==
    {<<>>,
     <<ResultEntry(ExtractBugData(ReviewedBug("BUG-1", <<"login", " ", "fails">>)),
                   "F1", "Di", "guess")>>,
     <<ResultEntry(ExtractBugData(ReviewedBug("BUG-1", <<"login", " ", "fails">>)),
                   "F1", "Di", "guess"),
       ResultEntry(ExtractBugData(ReviewedBug("BUG-2", <<"crash">>)),
                   "WeiQueDing", "WeiZhi", "")>>}

FeatureMapInputs ==
    {<<[key |-> "F2", summary |-> "export"], [key |-> "F1", summary |-> "login"]>>}

SelectionInputs ==
    {<<"1">>, <<"2">>, <<"3">>, <<" ", "1">>, <<"-", "1">>, <<"x">>,
     <<"q">>, <<"Q", "U", "I", "T">>, <<"e", "x", "i", "t">>}

FeatureSelectionInputs ==
    {<<"1">>, <<"3">>, <<"F2">>, <<"F9">>, <<"c">>, <<"C">>, <<SuperscriptTwo>>}

ReasonInputs == {<<>>, <<"same screen">>}

ReviewOutcomes == {"ok", "open_fails"}

InteractiveStartStep ==
    /\ call = NoCall
    /\ \E entries \in ResultInputs, feature_map \in FeatureMapInputs :
           InteractiveFeedbackMode(entries, feature_map)

FeedbackTurnStep ==
    /\ call.op = "interactive_feedback_mode"
    /\ call.pc = "loop"
    /\ call.turns < MaxTurns
    /\ \E selection \in SelectionInputs,
          feature_selection \in FeatureSelectionInputs,
          reason \in ReasonInputs, timestamp \in TimestampInputs,
          outcome \in ReviewOutcomes :
           FeedbackTurn(selection, feature_selection, reason, timestamp, outcome)

NextReview == InteractiveStartStep \/ FeedbackTurnStep

SpecReview == Init /\ [][NextReview]_vars

(***************************************************************************)
(* Properties of the quality scorer.                                       *)
(***************************************************************************)
InScoreRange(x) == RatLe(Int2Rat(0), x) /\ RatLe(x, Int2Rat(100))

Analyzed == call.op = "analyze_feature_quality" /\ ret.raised = ""
Scored   == call.op = "_calculate_quality_score"
Graded   == call.op = "_determine_quality_grade"

\* C1: whatever the linked bugs and the resolution rate, the quality score
\* returned by _calculate_quality_score and the one reported by
\* analyze_feature_quality lie in [0, 100].
C1_ScoreInRange ==
    /\ Scored => InScoreRange(ret)
    /\ Analyzed => InScoreRange(ret.quality_score)

\* the score before line 218 clamps it
Unclamped(bugs, resolution_rate) ==
    RatMul(DeductOpenBugs(bugs, Int2Rat(100)), DampingFactor(resolution_rate))

\* C1 witness: a call whose deductions exceed 100, so that only the clamp
\* keeps the score in range.
C1_Witness ==
    /\ Scored
    /\ RatLt(Unclamped(call.bugs, call.resolution_rate), Int2Rat(0))
    /\ ret = Int2Rat(0)

\* the bugs whose status the table files under Resolved
ResolvedIn(bugs) ==
    {i \in DOMAIN bugs : "status" \in DOMAIN bugs[i]
                         /\ bugs[i]["status"] \in {"Resolved", "Closed", "Done"}}

\* C2: a feature without linked bugs is reported with total_bugs = 0,
\* resolution_rate = 100, quality_score = 100 and grade A+; with bugs the
\* rate is resolved / total * 100, a number of [0, 100].
C2_EmptyFeature ==
    Analyzed =>
        IF call.linked_bugs = <<>>
        THEN /\ ret.total_bugs = 0
             /\ ret.resolution_rate = Int2Rat(100)
             /\ ret.quality_score = Int2Rat(100)
             /\ ret.quality_grade = "A+"
        ELSE /\ ret.total_bugs = Len(call.linked_bugs)
             /\ ret.resolved_bugs = Cardinality(ResolvedIn(call.linked_bugs))
             /\ RatMul(ret.resolution_rate, Int2Rat(ret.total_bugs))
                    = Int2Rat(100 * ret.resolved_bugs)
             /\ InScoreRange(ret.resolution_rate)

\* C2 witness: the analysis of a feature without bugs.
C2_Witness ==
    /\ Analyzed
    /\ call.linked_bugs = <<>>
    /\ ret.quality_grade = "A+"

\* the list with bug b put in before position p (p = Len + 1: at the end)
InsertAt(bugs, p, b) ==
    SubSeq(bugs, 1, p - 1) \o <<b>> \o SubSeq(bugs, p, Len(bugs))

ScoreWithOneMoreBlocker(p) ==
    AnalyzeFeatureQuality(call.feature,
                          InsertAt(call.linked_bugs, p, OpenBlocker)).quality_score

\* C3: one more Open bug of severity Blocker, put at the head or at the end
\* of the list, never raises the quality score: the score gets strictly
\* lower, or stays equal at 0.
C3_BlockerMonotone ==
    Analyzed =>
        \A p \in {1, Len(call.linked_bugs) + 1} :
            LET new == ScoreWithOneMoreBlocker(p)
            IN  \/ RatLt(new, ret.quality_score)
                \/ new = ret.quality_score /\ new = Int2Rat(0)

\* C3 witness: a list whose score is positive and is brought to the clamp at
\* 0 by one more Open Blocker.
C3_Witness ==
    /\ Analyzed
    /\ RatLt(Int2Rat(0), ret.quality_score)
    /\ ScoreWithOneMoreBlocker(1) = Int2Rat(0)

\* the twelve bands, best first: <<lower bound, grade>>
GradeBands ==
    << <<95, "A+">>, <<90, "A">>, <<85, "A-">>, <<80, "B+">>, <<75, "B">>,
       <<70, "B-">>, <<65, "C+">>, <<60, "C">>, <<55, "C-">>, <<50, "D+">>,
       <<45, "D">> >>

\* the place of a grade on the scale: 1 is F, 12 is A+
GradeRank(grade) ==
    IF grade = "F" THEN 1
    ELSE 13 - (CHOOSE i \in DOMAIN GradeBands : GradeBands[i][2] = grade)

\* the grade of the best band whose lower bound the score reaches
BandOf(score) ==
    LET reached == {i \in DOMAIN GradeBands :
                        RatLe(Int2Rat(GradeBands[i][1]), score)}
    IN  IF reached = {} THEN "F"
        ELSE GradeBands[CHOOSE i \in reached : \A j \in reached : i <= j][2]

AllGrades == {GradeBands[i][2] : i \in DOMAIN GradeBands} \cup {"F"}

TestCases ==
    << <<95, "A+">>, <<90, "A">>, <<85, "A-">>, <<80, "B+">>, <<75, "B">>,
       <<70, "B-">>, <<65, "C+">>, <<60, "C">>, <<55, "C-">>, <<50, "D">>,
       <<45, "F">> >>

\* C5: _determine_quality_grade returns what its unit test asserts: A+ .. C-
\* for 95, 90, .., 55, "D" for 50 and "F" for 45.
C5_GradeAsTested ==
    Graded =>
        \A i \in DOMAIN TestCases :
            call.quality_score = Int2Rat(TestCases[i][1]) => ret = TestCases[i][2]

(***************************************************************************)
(* Properties of the similarity.                                           *)
(***************************************************************************)
Compared == call.op = "_calculate_similarity"

\* C6: the similarity is symmetric: with the two texts exchanged,
\* _calculate_similarity returns the same number.
C6_Symmetric ==
    Compared => ret = CalculateSimilarity(call.text2, call.text1)

\* C6 witness: two texts with different word sets, some words shared.
C6_Witness ==
    /\ Compared
    /\ call.text1 # call.text2
    /\ RatLt(Int2Rat(0), ret)
    /\ RatLt(ret, Int2Rat(1))

\* C7 as claimed: every text of one character or more has similarity 1 to
\* itself.
C7_SelfSimilarityNonEmpty ==
    (Compared /\ call.text1 = call.text2 /\ Len(call.text1) >= 1) =>
        ret = Int2Rat(1)

HasWord(text) == \E i \in DOMAIN text : text[i] \notin Whitespace

\* C7 amended: every text that holds a character other than whitespace has
\* similarity 1 to itself.
C7_SelfSimilarity ==
    (Compared /\ call.text1 = call.text2 /\ HasWord(call.text1)) =>
        ret = Int2Rat(1)

\* C7 witness: a text with an upper-case word and whitespace, compared with
\* itself.
C7_Witness ==
    /\ Compared
    /\ call.text1 = call.text2
    /\ \E i \in DOMAIN call.text1 : call.text1[i] = "A"
    /\ \E i \in DOMAIN call.text1 : call.text1[i] \in Whitespace
    /\ ret = Int2Rat(1)

\* the case-folded words of a text: its maximal runs of characters other
\* than whitespace, as a set
WordsOf(text) ==
    LET folded == Lower(text)
        n      == Len(folded)
        IsWs(i) == folded[i] \in Whitespace
    IN  {SubSeq(folded, i, j) : <<i, j>> \in
            {<<i, j>> \in (1..n) \X (1..n) :
                /\ i <= j
                /\ \A k \in i..j : ~IsWs(k)
                /\ i = 1 \/ IsWs(i - 1)
                /\ j = n \/ IsWs(j + 1)}}

\* C8: the similarity is |A cap B| / |A cup B| for the sets A, B of the
\* case-folded whitespace-separated words of the two texts; it lies in
\* [0, 1], and it is 0 when either set is empty.
C8_Jaccard ==
    Compared =>
        LET A == WordsOf(call.text1)
            B == WordsOf(call.text2)
        IN  /\ RatLe(Int2Rat(0), ret) /\ RatLe(ret, Int2Rat(1))
            /\ (A = {} \/ B = {}) => ret = Int2Rat(0)
            /\ (A # {} /\ B # {}) =>
                   RatMul(ret, Int2Rat(Cardinality(A \cup B)))
                       = Int2Rat(Cardinality(A \cap B))

\* C8 witness: a text that repeats a word, compared with a text that shares
\* that word and has another.
C8_Witness ==
    /\ Compared
    /\ Len(Split(call.text1)) > Cardinality(WordsOf(call.text1))
    /\ ret = Rat(1, 2)

(***************************************************************************)
(* Properties of get_relevant_feedback.                                    *)
(***************************************************************************)
Queried == call.op = "get_relevant_feedback"

\* the similarity of stored entry i to the title of the query
SimilarityTo(i) ==
    CalculateSimilarity(call.bug_title, feedback_data[i]["bug_title"])

\* an entry as stored: a returned copy without the similarity put on it
Stored(copy) == [k \in DOMAIN copy \ {"similarity"} |-> copy[k]]

\* C9: get_relevant_feedback returns at most max_feedback_examples entries
\* (a limit >= 0), each one an entry of the store whose title similarity to
\* the query reaches the threshold.
C9_LimitAndThreshold ==
    (Queried /\ max_feedback_examples >= 0) =>
        /\ Len(ret) <= max_feedback_examples
        /\ \A n \in DOMAIN ret :
               /\ \E i \in DOMAIN feedback_data : Stored(ret[n]) = feedback_data[i]
               /\ RatGe(CalculateSimilarity(call.bug_title, ret[n]["bug_title"]),
                        similarity_threshold)

\* the stored entries that reach the threshold
Clearing == {i \in DOMAIN feedback_data :
                RatGe(SimilarityTo(i), similarity_threshold)}

\* C9 witness: a query that more entries clear than the limit lets through,
\* while another entry stays below the threshold.
C9_Witness ==
    /\ Queried
    /\ max_feedback_examples >= 1
    /\ Cardinality(Clearing) > max_feedback_examples
    /\ Len(ret) = max_feedback_examples
    /\ Clearing # DOMAIN feedback_data

\* entry i comes before entry j: more similar, or as similar and stored earlier
Before(i, j) ==
    \/ RatLt(SimilarityTo(j), SimilarityTo(i))
    \/ SimilarityTo(i) = SimilarityTo(j) /\ i < j

\* the entry that has n - 1 of the clearing entries before it
RankedAt(n) ==
    CHOOSE i \in Clearing : Cardinality({j \in Clearing : Before(j, i)}) = n - 1

\* C10: get_relevant_feedback returns the first max_feedback_examples of
\* the entries that reach the threshold, ordered by descending similarity
\* and, among equals, by insertion; nothing when the store is empty or no
\* entry reaches the threshold; and the same list for every description.
C10_RankedPrefix ==
    (Queried /\ max_feedback_examples >= 0) =>
        /\ Len(ret) = IF Cardinality(Clearing) < max_feedback_examples
                      THEN Cardinality(Clearing) ELSE max_feedback_examples
        /\ \A n \in DOMAIN ret :
               /\ Stored(ret[n]) = feedback_data[RankedAt(n)]
               /\ ret[n]["similarity"] = SimilarityTo(RankedAt(n))
        /\ (feedback_data = <<>> \/ Clearing = {}) => ret = <<>>
        /\ \A bug_description \in DescriptionInputs :
               GetRelevantFeedback(feedback_data, similarity_threshold,
                                   max_feedback_examples, call.bug_title,
                                   bug_description) = ret

\* C10 witness: a result of two entries of equal similarity, stored behind
\* a less similar entry that the result leaves out.
C10_Witness ==
    /\ Queried
    /\ Len(ret) = 2
    /\ ret[1]["similarity"] = ret[2]["similarity"]
    /\ ret[1]["bug_id"] # ret[2]["bug_id"]
    /\ 1 \in Clearing
    /\ Stored(ret[1]) # feedback_data[1]
    /\ Stored(ret[2]) # feedback_data[1]

(***************************************************************************)
(* Properties of the feedback store over its life.                         *)
(***************************************************************************)
Saved    == call.op = "save_feedback"
Prompted == call.op = "get_feedback_prompt"
\* the lookup ended in a KeyError (a lookup leaves feedback_data as it was)
QueryRaised == ~HasTitles(feedback_data)

\* C11: the feedback store is append-only.  A save_feedback step leaves every
\* entry that was in feedback_data where it was and as it was, and adds
\* exactly one entry, the new one, at the end; a get_relevant_feedback or
\* get_feedback_prompt step leaves feedback_data as it was; and no entry of the
\* store ever holds a similarity.
C11_AppendOnly ==
    [][/\ call'.op = "save_feedback" =>
            /\ Len(feedback_data') = Len(feedback_data) + 1
            /\ SubSeq(feedback_data', 1, Len(feedback_data)) = feedback_data
            /\ feedback_data'[Len(feedback_data')] = call'.entry
       /\ call'.op \in {"get_relevant_feedback", "get_feedback_prompt"} =>
            feedback_data' = feedback_data
       /\ \A i \in DOMAIN feedback_data' :
            "similarity" \notin DOMAIN feedback_data'[i]]_vars

\* a lookup has returned a copy that holds a similarity, from a store of two
\* entries that the second save_feedback left behind the first
C11_Witness ==
    /\ Queried
    /\ ~QueryRaised
    /\ Len(feedback_data) = 2
    /\ feedback_data[1] # feedback_data[2]
    /\ Len(ret) >= 1
    /\ "similarity" \in DOMAIN ret[1]

\* the entries of the store that the file does not hold: those whose write
\* failed
Unwritten == {i \in DOMAIN feedback_data :
                 \A j \in DOMAIN LoadFeedback(feedback_file, "ok") :
                     LoadFeedback(feedback_file, "ok")[j] # feedback_data[i]}

\* C12: a save_feedback whose write fails returns False and one whose write
\* succeeds returns True; either way the new entry is in feedback_data when
\* the call is over, and a lookup by the entry's own title made then returns a
\* copy of it (for the threshold and the limit the constructor sets).
C12_FailedWriteKept ==
    [][call'.op = "save_feedback" =>
         /\ ret' \in BOOLEAN
         /\ ret' = (call'.outcome = "ok")
         /\ Len(feedback_data') = Len(feedback_data) + 1
         /\ feedback_data'[Len(feedback_data')] = call'.entry
         /\ (HasTitles(feedback_data') =>
               LET found == GetRelevantFeedback(feedback_data', similarity_threshold',
                                max_feedback_examples', call'.entry.bug_title, <<>>)
               IN  \E k \in DOMAIN found : Stored(found[k]) = call'.entry)]_vars

\* a lookup has returned a copy of an entry whose write failed
C12_Witness ==
    /\ Queried
    /\ ~QueryRaised
    /\ \E k \in DOMAIN ret : \E i \in Unwritten : Stored(ret[k]) = feedback_data[i]

\* the store holds exactly what a replay of the log gives
Persisted == feedback_data = LoadFeedback(feedback_file, "ok")

\* C13: a new manager made on the file holds the entries of the manager
\* before it, in their order and with their values, when every save_feedback
\* of that manager succeeded.  Stated step by step: a manager starts with the
\* replay of the log; a successful save_feedback keeps the store equal to the
\* replay of the log; so a new manager that reads the log finds the store as
\* it was.  A log that is missing or cannot be read gives an empty store.
C13_ReplayRebuilds ==
    [][/\ (call'.op = "save_feedback" /\ ret' = TRUE /\ Persisted) => Persisted'
       /\ (call'.op = "__init__" /\ call'.outcome = "ok" /\ Persisted) =>
              feedback_data' = feedback_data
       /\ (call'.op = "__init__"
              /\ (call'.outcome # "ok" \/ ~feedback_file.exists)) =>
              feedback_data' = <<>>]_vars

\* what get_relevant_feedback returns for the title of the last call
RelevantNow ==
    GetRelevantFeedback(feedback_data, similarity_threshold,
                        max_feedback_examples, call.bug_title,
                        call.bug_description)

\* needle[i..] is found in hay[j..], in its order
RECURSIVE IsSubsequence(_, _, _, _)
IsSubsequence(needle, i, hay, j) ==
    IF i > Len(needle) THEN TRUE
    ELSE IF j > Len(hay) THEN FALSE
    ELSE IF needle[i] = hay[j] THEN IsSubsequence(needle, i + 1, hay, j + 1)
    ELSE IsSubsequence(needle, i, hay, j + 1)

\* what the prompt has to show of the entries, in their order
RECURSIVE Shown(_)
Shown(entries) ==
    IF entries = <<>> THEN <<>>
    ELSE LET entry == Head(entries)
         IN  StrOf(entry["bug_id"]) \o entry["bug_title"]
                 \o StrOf(entry["predicted_feature"])
                 \o StrOf(entry["correct_feature"]) \o Shown(Tail(entries))

Occurrences(text, token) == Cardinality({i \in DOMAIN text : text[i] = token})

\* C14: get_feedback_prompt returns the empty string exactly when
\* get_relevant_feedback returns nothing for the same title; otherwise the
\* prompt is not empty, holds one example per returned entry, and shows the
\* bug id, the bug title, the predicted and the correct feature of each
\* entry, in the order in which get_relevant_feedback returned the entries.
C14_PromptOfRelevant ==
    (Prompted /\ ~QueryRaised) =>
        /\ (ret = <<>>) <=> (RelevantNow = <<>>)
        /\ RelevantNow # <<>> =>
              /\ Occurrences(ret, ExampleMark) = Len(RelevantNow)
              /\ IsSubsequence(Shown(RelevantNow), 1, ret, 1)

\* a prompt of two examples, of two different bugs
C14_Witness ==
    /\ Prompted
    /\ ~QueryRaised
    /\ Len(RelevantNow) = 2
    /\ RelevantNow[1]["bug_id"] # RelevantNow[2]["bug_id"]
    /\ ret # <<>>

(***************************************************************************)
(* Properties of parse_analysis_result.                                    *)
(***************************************************************************)
Parsed == call.op = "parse_analysis_result"

LinesOf(text) == SplitOn(text, "\n")

\* the text of a line behind its prefix
After(line, prefix) == SubSeq(line, Len(prefix) + 1, Len(line))

\* three lines, each of which starts with its prefix
WellFormed(analysis_result) ==
    /\ analysis_result.type = "str"
    /\ Len(LinesOf(analysis_result.value)) = 3
    /\ StartsWith(LinesOf(analysis_result.value)[1], FeatureIdPrefix)
    /\ StartsWith(LinesOf(analysis_result.value)[2], ConfidencePrefix)
    /\ StartsWith(LinesOf(analysis_result.value)[3], ReasonPrefix)

\* C15: for a response of three lines, each of which starts with its prefix,
\* parse_analysis_result returns for each line the text behind the prefix,
\* stripped of the whitespace around it, whatever that text holds.
C15_ExactFields ==
    (Parsed /\ WellFormed(call.analysis_result)) =>
        LET lines == LinesOf(call.analysis_result.value)
        IN  /\ ret.raised = ""
            /\ ret.value = <<Strip(After(lines[1], FeatureIdPrefix)),
                             Strip(After(lines[2], ConfidencePrefix)),
                             Strip(After(lines[3], ReasonPrefix))>>

\* a line of the response, stripped, starts with the prefix
HasLine(analysis_result, prefix) ==
    /\ analysis_result.type = "str"
    /\ \E i \in DOMAIN LinesOf(analysis_result.value) :
           StartsWith(Strip(LinesOf(analysis_result.value)[i]), prefix)

\* C16: parse_analysis_result raises for no value, str or not; and a field
\* none of whose lines starts with the field's prefix is returned as its
\* default.
C16_NeverRaises ==
    Parsed =>
        /\ ret.raised = ""
        /\ Len(ret.value) = 3
        /\ ~HasLine(call.analysis_result, FeatureIdPrefix) =>
               ret.value[1] = Undetermined
        /\ ~HasLine(call.analysis_result, ConfidencePrefix) =>
               ret.value[2] = UnknownLabel
        /\ ~HasLine(call.analysis_result, ReasonPrefix) => ret.value[3] = <<>>

\* the parser was handed a value that is no str, and returned the defaults
C16_Witness ==
    /\ Parsed
    /\ call.analysis_result.type # "str"
    /\ ret = Returned(<<Undetermined, UnknownLabel, <<>>>>)


(***************************************************************************)
(* Properties of the advisor.                                              *)
(***************************************************************************)
AnalysedOne == call.op = "analyze_bug"
BatchDone   == call.op = "analyze_bugs" /\ call.pc = "done"

StageEvents(events, stage) ==
    {j \in DOMAIN events : events[j].request.stage = stage}

Failures(events) == {j \in DOMAIN events : events[j].raises}

\* C17: analyze_bug never propagates a failure of the oracle.  An invocation
\* makes at most one keyword request and at most one classification request,
\* the classification request only after a keyword request that succeeded;
\* and when one of them raised, a direct call returns the pair of the
\* undetermined feature id and the error message, which ends with the
\* message of the exception.
C17_FailureContained ==
    /\ \A i \in DOMAIN trace :
           LET events == trace[i]
           IN  /\ Cardinality(StageEvents(events, "keywords")) <= 1
               /\ Cardinality(StageEvents(events, "classification")) <= 1
               /\ \A j \in StageEvents(events, "classification") :
                      \E k \in StageEvents(events, "keywords") :
                          k < j /\ ~events[k].raises
    /\ AnalysedOne =>
           /\ Len(ret) = 2
           /\ \A j \in Failures(trace[1]) :
                  ret = <<Undetermined, <<ErrorPrefix>> \o trace[1][j].text>>

\* a direct call whose classification request raised, after keywords were
\* extracted
C17_Witness ==
    /\ AnalysedOne
    /\ Len(trace[1]) = 2
    /\ ~trace[1][1].raises
    /\ trace[1][2].raises


\* the entry that a bug whose requests all succeeded gets from the text of
\* the classification reply alone
EntryOf(bug, events) ==
    LET parsed == ParseAnalysisResult(PyStr(Strip(events[Len(events)].text))).value
    IN  ResultEntry(ExtractBugData(bug), parsed[1], parsed[2], parsed[3])

\* C18: whatever the bugs and whichever of their oracle requests fail,
\* analyze_bugs returns one entry per bug, in the order of the bugs; the entry
\* of a bug with a failed request has the undetermined feature id, and the
\* entry of any other bug is the one its own classification reply gives.
C18_OneEntryPerBug ==
    BatchDone =>
        /\ Len(ret) = Len(call.bugs)
        /\ Len(trace) = Len(call.bugs)
        /\ \A i \in DOMAIN ret :
               /\ ret[i].bug_id = ExtractBugData(call.bugs[i])["key"]
               /\ Failures(trace[i]) # {} => ret[i].feature = Undetermined
               /\ Failures(trace[i]) = {} => ret[i] = EntryOf(call.bugs[i], trace[i])


FeedbackQueries(events) ==
    {j \in DOMAIN events : events[j].to = "feedback_manager"}

\* C19: on a client made with a feedback manager, an analyze_bug invocation
\* that gets to the classification stage has asked the manager for its
\* feedback prompt exactly once, after the keyword request and before the
\* classification request, and the classification request holds the fragment
\* the manager returned.
C19_FeedbackEmbedded ==
    client.feedback_manager # NoneVal =>
        \A i \in DOMAIN trace :
            \A j \in StageEvents(trace[i], "classification") :
                /\ Cardinality(FeedbackQueries(trace[i])) = 1
                /\ \A k \in FeedbackQueries(trace[i]) :
                       /\ k < j
                       /\ \E first \in StageEvents(trace[i], "keywords") : first < k
                       /\ "feedback_prompt" \in DOMAIN trace[i][j].request
                       /\ trace[i][j].request["feedback_prompt"] = trace[i][k].text

\* C20: a call of analyze_bug or of analyze_bugs with no candidate feature
\* sends nothing to the oracle and yields no result: no pair with the
\* undetermined feature id, no entry.
C20_EmptyFeaturesRejected ==
    /\ (AnalysedOne /\ call.feature_list = <<>>) =>
           /\ trace[1] = <<>>
           /\ ret[1] # Undetermined
    /\ (call.op = "analyze_bugs" /\ call.features = <<>>) =>
           /\ trace = <<>>
           /\ results = <<>>


(***************************************************************************)
(* Further properties of the quality scorer.                               *)
(***************************************************************************)
\* the statuses that count as Open
OpenStatuses == {"Open", "In Progress", "Reopened", "To Do"}

\* the weight of a severity label, 1 for a label that is not in the table
SeverityWeight(severity) ==
    CASE severity = "Blocker"  -> Int2Rat(5)
      [] severity = "Critical" -> Int2Rat(4)
      [] severity = "Major"    -> Int2Rat(3)
      [] severity = "Normal"   -> Int2Rat(2)
      [] severity = "Minor"    -> Int2Rat(1)
      [] severity = "Trivial"  -> Rat(1, 2)
      [] OTHER                 -> Int2Rat(1)

OpenClassified(bugs) ==
    {i \in DOMAIN bugs : "status" \in DOMAIN bugs[i]
                         /\ bugs[i]["status"] \in OpenStatuses}

\* every Open-classified bug has a severity field
OpenHaveSeverity(bugs) ==
    \A i \in OpenClassified(bugs) : "severity" \in DOMAIN bugs[i]

\* the sum of 2 * weight over the bugs of the index set
RECURSIVE SumOfDeductions(_, _)
SumOfDeductions(bugs, indexes) ==
    IF indexes = {} THEN Int2Rat(0)
    ELSE LET i == CHOOSE j \in indexes : TRUE
         IN  RatAdd(RatMul(Int2Rat(2), SeverityWeight(bugs[i]["severity"])),
                    SumOfDeductions(bugs, indexes \ {i}))

\* (100 - deductions) * f, clamped to [0, 100]
ExpectedScore(bugs, resolution_rate) ==
    LET deducted == RatSub(Int2Rat(100),
                           SumOfDeductions(bugs, OpenClassified(bugs)))
        f        == IF RatLt(resolution_rate, Int2Rat(80))
                    THEN RatMul(RatAdd(Int2Rat(80), resolution_rate), Rat(1, 160))
                    ELSE Int2Rat(1)
        damped   == RatMul(deducted, f)
    IN  IF RatLt(damped, Int2Rat(0)) THEN Int2Rat(0)
        ELSE IF RatLt(Int2Rat(100), damped) THEN Int2Rat(100)
        ELSE damped

WeightOfBug(bug) == SeverityWeight(Get(bug, "severity", Absent))

RECURSIVE SumOfWeights(_, _)
SumOfWeights(bugs, indexes) ==
    IF indexes = {} THEN Int2Rat(0)
    ELSE LET i == CHOOSE j \in indexes : TRUE
         IN  RatAdd(WeightOfBug(bugs[i]), SumOfWeights(bugs, indexes \ {i}))

\* the Open-classified bugs whose severity is no label of the table, or
\* is missing
DefaultWeighted(bugs) ==
    {i \in OpenClassified(bugs) :
        Get(bugs[i], "severity", Absent) \notin DOMAIN severity_weights}

\* C22: an Open-classified bug whose severity is not in the weight table, or
\* is missing, deducts exactly 2 from the score and adds weight 1 to the
\* average severity.  With f = 1 (a rate of 80 or more) and no clamping, the
\* score is 100 less twice the sum of the weights of the Open-classified
\* bugs; and avg_severity * total_bugs is the sum of the weights of all bugs.
C22_DefaultWeightOne ==
    /\ (Scored /\ RatGe(call.resolution_rate, Int2Rat(80))
               /\ RatLt(Int2Rat(0), ret)) =>
           ret = RatSub(Int2Rat(100),
                        RatMul(Int2Rat(2),
                               SumOfWeights(call.bugs, OpenClassified(call.bugs))))
    /\ Analyzed =>
           RatMul(ret.avg_severity, Int2Rat(ret.total_bugs))
               = SumOfWeights(call.linked_bugs, DOMAIN call.linked_bugs)


\* the labels of the table whose weight is below 1
LowWeighted ==
    {label \in DOMAIN severity_weights :
        RatLt(severity_weights[label], Int2Rat(1))}

\* the score of the one bug of the call had its severity been the label
ScoreWithSeverity(label) ==
    CalculateQualityScore(<<("severity" :> label) @@ call.bugs[1]>>,
                          call.resolution_rate)

\* C23: an Open-classified bug whose severity label is not in the table never
\* costs more score than an Open-classified bug of a label weighted below 1:
\* the score of the one is at least the score of the other.
C23_DefaultBelowLowWeights ==
    (/\ Scored
     /\ Len(call.bugs) = 1
     /\ DefaultWeighted(call.bugs) = {1}
     /\ "severity" \in DOMAIN call.bugs[1]) =>
        \A label \in LowWeighted : RatGe(ret, ScoreWithSeverity(label))


\* the bucket of a bug by the fixed table of statuses
BucketOf(bug) ==
    IF "status" \notin DOMAIN bug THEN "Other"
    ELSE IF bug["status"] \in OpenStatuses THEN "Open"
    ELSE IF bug["status"] \in {"Resolved", "Closed", "Done"} THEN "Resolved"
    ELSE "Other"

InBucket(bugs, bucket) == {i \in DOMAIN bugs : BucketOf(bugs[i]) = bucket}

\* the bugs of the list that are in the bucket, in their order
RECURSIVE OnlyBucket(_, _)
OnlyBucket(bugs, bucket) ==
    IF bugs = <<>> THEN <<>>
    ELSE (IF BucketOf(Head(bugs)) = bucket THEN <<Head(bugs)>> ELSE <<>>)
             \o OnlyBucket(Tail(bugs), bucket)

\* C24: in every report open_bugs counts the bugs whose status the table
\* files under Open and resolved_bugs those it files under Resolved; a bug
\* whose status is unknown, missing or None is in Other, so in neither
\* count; open_bugs + resolved_bugs <= total_bugs; and the score is the one
\* that the bugs counted as Open alone give, so no other bug deducts.
C24_OneBucketPerBug ==
    Analyzed =>
        /\ ret.open_bugs = Cardinality(InBucket(call.linked_bugs, "Open"))
        /\ ret.resolved_bugs = Cardinality(InBucket(call.linked_bugs, "Resolved"))
        /\ ret.open_bugs + ret.resolved_bugs <= ret.total_bugs
        /\ ret.quality_score =
               CalculateQualityScore(OnlyBucket(call.linked_bugs, "Open"),
                                     ret.resolution_rate)

\* a report of three bugs: one Open, one Resolved, and one whose status is
\* unknown, missing or None
C24_Witness ==
    /\ Analyzed
    /\ ret.total_bugs = 3
    /\ ret.open_bugs = 1
    /\ ret.resolved_bugs = 1
    /\ \E i \in DOMAIN call.linked_bugs :
           Get(call.linked_bugs[i], "status", Absent) \in {"Rejected", NoneVal, Absent}


\* the timestamp texts that parse, and those that parse to an aware datetime
Parses(d)  == d.fmt \in {"iso_z", "iso_offset", "iso_naive", "ymd_hms",
                         "slash_hms", "dmy_hms", "ymd"}
IsAware(d) == d.fmt \in {"iso_z", "iso_offset"}

\* the bugs that have a resolution timestamp and whose two timestamps parse
\* and can be subtracted
Contributing(bugs) ==
    {i \in DOMAIN bugs :
        /\ "resolutiondate" \in DOMAIN bugs[i]
        /\ bugs[i]["resolutiondate"] \notin {NoDate, EmptyDate}
        /\ "created" \in DOMAIN bugs[i]
        /\ Parses(bugs[i]["created"])
        /\ Parses(bugs[i]["resolutiondate"])
        /\ IsAware(bugs[i]["created"]) = IsAware(bugs[i]["resolutiondate"])}

\* the whole days from the creation to the resolution of a contributing bug
WholeDays(bug) == (bug["resolutiondate"].t - bug["created"].t) \div 24

RECURSIVE SumOfDays(_, _)
SumOfDays(bugs, indexes) ==
    IF indexes = {} THEN 0
    ELSE LET i == CHOOSE j \in indexes : TRUE
         IN  WholeDays(bugs[i]) + SumOfDays(bugs, indexes \ {i})

\* C25: analyze_feature_quality does not raise on any timestamps; it counts
\* every bug in total_bugs, and avg_resolution_time is the mean of the whole
\* days resolution - creation over the bugs that have a resolution timestamp
\* and whose two timestamps parse and can be subtracted, 0 when there is no
\* such bug.
C25_MeanOfWholeDays ==
    call.op = "analyze_feature_quality" =>
        /\ ret.raised = ""
        /\ ret.total_bugs = Len(call.linked_bugs)
        /\ LET contributing == Contributing(call.linked_bugs)
           IN  IF contributing = {} THEN ret.avg_resolution_time = Int2Rat(0)
               ELSE RatMul(ret.avg_resolution_time,
                           Int2Rat(Cardinality(contributing)))
                        = Int2Rat(SumOfDays(call.linked_bugs, contributing))


(***************************************************************************)
(* Further properties of the feedback store.                               *)
(***************************************************************************)
\* the rows of the log as they stand in the file
RowsOf(file) == ParseCsv(file.content)

\* the rows behind the first one
DataRowCount(rows) == IF rows = <<>> THEN 0 ELSE Len(rows) - 1

\* C26: from a log file that does not exist, whatever save_feedback calls are
\* made: when the log holds rows, its first row is the header and no other
\* row is; no step rewrites or removes a row that was there; and a
\* save_feedback that succeeds adds exactly one data row.
C26_HeaderOnce ==
    [][LET before == RowsOf(feedback_file)
           after  == RowsOf(feedback_file')
       IN  /\ after # <<>> =>
                 /\ after[1] = HeaderRow
                 /\ \A i \in 2..Len(after) : after[i] # HeaderRow
           /\ Len(before) <= Len(after)
           /\ SubSeq(after, 1, Len(before)) = before
           /\ (call'.op = "save_feedback" /\ call'.outcome = "ok") =>
                 DataRowCount(after) = DataRowCount(before) + 1]_vars


\* the data rows of the log, as load_feedback reads them
LogEntries(file) == LoadFeedback(file, "ok")

\* C29: the data rows of the log are a subsequence, in order, of
\* feedback_data: a manager starts with feedback_data equal to them and every
\* save_feedback keeps it so; a save_feedback whose write succeeds adds its entry to
\* the data rows and one whose write fails leaves the data rows as they
\* were, so the rows are the loaded entries followed by exactly the entries
\* written with success, and equal feedback_data as long as no write failed;
\* an entry whose write failed stays in feedback_data, and a new manager
\* starts from the data rows of the log, so without it.
C29_LogWithinMemory ==
    [][LET before == LogEntries(feedback_file)
           after  == LogEntries(feedback_file')
       IN  /\ (call'.op = "save_feedback"
                  /\ IsSubsequence(before, 1, feedback_data, 1)) =>
                  IsSubsequence(after, 1, feedback_data', 1)
           /\ (call'.op = "save_feedback" /\ call'.outcome = "ok") =>
                  after = Append(before, call'.entry)
           /\ (call'.op = "save_feedback" /\ call'.outcome # "ok") =>
                  /\ after = before
                  /\ feedback_data'[Len(feedback_data')] = call'.entry
           /\ (call'.op = "save_feedback" /\ call'.outcome = "ok"
                  /\ before = feedback_data) => after = feedback_data'
           /\ (call'.op = "__init__" /\ call'.outcome = "ok") =>
                  feedback_data' = before]_vars


(***************************************************************************)
(* Further properties of the parser.                                       *)
(***************************************************************************)
\* the lines of the text that, stripped, start with the prefix
LinesWith(text, prefix) ==
    {i \in DOMAIN LinesOf(text) : StartsWith(Strip(LinesOf(text)[i]), prefix)}

\* the field is the stripped text behind the leading prefix of the one line
\* of the response that starts with the prefix
FieldRecovered(text, prefix, value) ==
    \A i \in LinesWith(text, prefix) :
        (LinesWith(text, prefix) = {i} /\ StartsWith(LinesOf(text)[i], prefix)) =>
            value = Strip(After(LinesOf(text)[i], prefix))

\* C27: for a response that is a str, of one line or of several, and each of
\* the three prefixes: when one line only starts with the prefix, the field
\* returned is the text of that line behind its leading prefix, stripped.
C27_EveryLineRecognised ==
    (Parsed /\ call.analysis_result.type = "str") =>
        /\ FieldRecovered(call.analysis_result.value, FeatureIdPrefix, ret.value[1])
        /\ FieldRecovered(call.analysis_result.value, ConfidencePrefix, ret.value[2])
        /\ FieldRecovered(call.analysis_result.value, ReasonPrefix, ret.value[3])


(***************************************************************************)
(* Properties of the Jira client.                                          *)
(***************************************************************************)
Fetching == call.op = "get_all_issues"
Fetched  == call.op = "get_all_issues" /\ call.pc = "done"

\* C28: the paging loop of get_all_issues ends: it fetches no page behind the
\* first one that is short or empty.  A call that fetched its pages without
\* a failure returns all the matching issues, in the order of the pages.  A
\* call that finds its key in the cache returns the cached list and fetches
\* nothing.  And the list a call saves under its key is the complete list of
\* the matching issues, never a part of it.
C28_CompleteAndCached ==
    /\ Fetching => call.fetches <= call.total \div max_results + 1
    /\ Fetched =>
           /\ (~call.from_cache /\ ~call.failed) =>
                  /\ ret = Issues(call.total)
                  /\ call.fetches = call.total \div max_results + 1
           /\ call.from_cache =>
                  /\ call.fetches = 0
                  /\ ret = cache[call.cache_key]
           /\ call.saved => cache[call.cache_key] = Issues(call.total)


(***************************************************************************)
(* Properties of the interactive feedback mode.                            *)
(***************************************************************************)
Reviewing == call.op = "interactive_feedback_mode"

\* a step that is one turn of the loop
TurnTaken ==
    /\ Reviewing
    /\ call'.op = "interactive_feedback_mode"
    /\ call'.turns = call.turns + 1

\* the entries (from 1) the typed bug number of the turn denotes
BugChosen ==
    {i \in 1..Len(bug_results) : PyInt(call'.selection).raised = ""
                                 /\ PyInt(call'.selection).value = i}

\* the features the typed feature choice of the turn denotes: a number of
\* the sorted list or a known feature id
FeatureChosen ==
    LET known  == DOMAIN FeaturesById(call.feature_map)
        listed == SortedKeys(known)
        typed  == call'.feature_selection
    IN  {f \in known :
            \/ Typed(typed) = f
            \/ /\ IsDigit(typed)
               /\ PyInt(typed).raised = ""
               /\ \E k \in 1..Len(listed) : PyInt(typed).value = k /\ listed[k] = f}

\* the turn saved one feedback for entry i and feature f, with the feature
\* the entry held before as the predicted one
SavedFor(i, f) ==
    /\ Len(feedback_data') = Len(feedback_data) + 1
    /\ SubSeq(feedback_data', 1, Len(feedback_data)) = feedback_data
    /\ LET saved == feedback_data'[Len(feedback_data')]
       IN  /\ saved["bug_id"] = bug_results[i]["bug_id"]
           /\ saved["bug_title"] = bug_results[i]["bug_title"]
           /\ saved["predicted_feature"] = bug_results[i]["feature"]
           /\ saved["correct_feature"] = f
           /\ saved["reason"] = call'.reason

\* the turn changed entry i alone, to feature f confirmed by the user, and
\* nothing of it but the fields in touched
OnlyChanged(i, f, touched) ==
    /\ DOMAIN bug_results' = DOMAIN bug_results
    /\ \A j \in DOMAIN bug_results : j # i => bug_results'[j] = bug_results[j]
    /\ DOMAIN bug_results'[i] = DOMAIN bug_results[i]
    /\ bug_results'[i]["feature"] = f
    /\ bug_results'[i]["confidence"] = ConfirmedByUser
    /\ \A field \in DOMAIN bug_results[i] \ touched :
           bug_results'[i][field] = bug_results[i][field]

\* what every turn keeps: the number of entries, and the loop ends exactly
\* on q, quit or exit
TurnKeeps ==
    /\ Len(bug_results') = Len(bug_results)
    /\ (call'.pc = "done") <=> (Lower(call'.selection) \in QuitWords)

\* C30 as stated: feedback is saved only after a valid bug number followed
\* by a valid feature choice; it records the feature the entry held before
\* as the predicted one; then the selected entry alone is changed, and
\* nothing of it but its feature and its confidence; every other input leaves
\* the results and the feedback store as they were; the number of entries
\* never changes and the loop ends on q, quit or exit.
C30_OnlyFeatureAndConfidence ==
    [][TurnTaken =>
        /\ TurnKeeps
        /\ IF BugChosen # {} /\ FeatureChosen # {}
           THEN \E i \in BugChosen, f \in FeatureChosen :
                    /\ SavedFor(i, f)
                    /\ OnlyChanged(i, f, {"feature", "confidence"})
           ELSE UNCHANGED <<bug_results, feedback_data, feedback_file>>]_vars

\* C30 (amended): as above, but a reason that is typed and not empty also
\* replaces the reason of the selected entry; an empty reason leaves it.
C30_ReasonToo ==
    [][TurnTaken =>
        /\ TurnKeeps
        /\ IF BugChosen # {} /\ FeatureChosen # {}
           THEN \E i \in BugChosen, f \in FeatureChosen :
                    /\ SavedFor(i, f)
                    /\ OnlyChanged(i, f, {"feature", "confidence", "reason"})
                    /\ bug_results'[i]["reason"] =
                           IF call'.reason # "" THEN call'.reason
                           ELSE bug_results[i]["reason"]
           ELSE UNCHANGED <<bug_results, feedback_data, feedback_file>>]_vars

\* a turn corrected an entry and a reason was typed
C30_Witness ==
    /\ Reviewing
    /\ call.kind = "correct"
    /\ call.reason # ""
    /\ feedback_data # <<>>
    /\ \E i \in DOMAIN bug_results :
           /\ bug_results[i]["confidence"] = ConfirmedByUser
           /\ bug_results[i]["reason"] = call.reason

====
